---- MODULE Spec2Model ----
(***************************************************************************)
(* A model of the py6502emu C64 emulator core: the banked memory manager   *)
(* (src/pyc64/memory.py), the bus (src/pyc64/bus.py), the two CIAs         *)
(* (src/cia.py), the VIC-II (src/vic2.py), the SID register file           *)
(* (src/sid.py) and the 6510 CPU tick loop (src/pyc64/cpu.py, with the     *)
(* opcode tables of src/cpu_6502.py).                                      *)
(*                                                                         *)
(* Python lists that the code zero-fills ([0x00] * n) are modelled as      *)
(* sparse functions: an index outside the domain holds 0, and a stored 0   *)
(* is removed from the domain, so that equal arrays are equal values.      *)
(***************************************************************************)
EXTENDS Integers, Sequences, FiniteSets, TLC

VARIABLES
    cpu,        \* the CPU object's registers, flags and interrupt latches
    mem,        \* MemoryManager: ram, the three ROMs, color_ram, processor_port
    bus,        \* Bus: memory_dirty_flags, cartridge
    vic,        \* VICII object
    sid,        \* SID object
    cia,        \* the two CIA objects, cia.cia1 and cia.cia2
    snapshot,   \* the save-state file last written by _save_state ("none" before)
    last,       \* the operation performed last, its arguments and its return value
    hist        \* history kept for the properties (never read by the operations)

vars == <<cpu, mem, bus, vic, sid, cia, snapshot, last, hist>>

----------------------------------------------------------------------------
(* Bit arithmetic on Python ints (non-negative operands).                  *)

Bit(v, i) == (v \div (2 ^ i)) % 2

\* a & b of two hexadecimal digits, bit by bit
NibbleAnd ==
    [p \in 0..15 |-> [q \in 0..15 |->
        Bit(p, 0) * Bit(q, 0) + 2 * Bit(p, 1) * Bit(q, 1)
        + 4 * Bit(p, 2) * Bit(q, 2) + 8 * Bit(p, 3) * Bit(q, 3)]]

\* a & b, digit by digit
RECURSIVE BitAnd(_, _)
BitAnd(a, b) ==
    IF a = 0 \/ b = 0 THEN 0
    ELSE NibbleAnd[a % 16][b % 16] + 16 * BitAnd(a \div 16, b \div 16)

BitOr(a, b) == a + b - BitAnd(a, b)

\* a & ~b
BitClear(a, b) == a - BitAnd(a, b)

\* zero-filled Python list: read and write of one cell
Get(arr, k) == IF k \in DOMAIN arr THEN arr[k] ELSE 0

Put(arr, k, v) ==
    IF v = 0
    THEN [x \in (DOMAIN arr) \ {k} |-> arr[x]]
    ELSE [x \in (DOMAIN arr) \cup {k} |-> IF x = k THEN v ELSE arr[x]]

Zeros == [x \in {} |-> 0]

\* the machine as one value, for the operations that cross objects
Machine ==
    [cpu |-> cpu, mem |-> mem, bus |-> bus, vic |-> vic, sid |-> sid, cia |-> cia]

----------------------------------------------------------------------------
(* SID register file (src/sid.py).                                         *)

SidVoiceInit ==
    [phase_accumulator |-> 0, noise_shift_register |-> 8388607,
     freq |-> 0, pulse_width |-> 0, control |-> 0,
     attack_decay |-> 0, sustain_release |-> 0,
     rate_counter |-> 0, envelope_state |-> "RELEASE", envelope_counter |-> 0]

SidInit ==
    [registers |-> Zeros,
     voices |-> [i \in 0..2 |-> SidVoiceInit],
     volume15 |-> 0,              \* volume, kept as the numerator of n / 15.0
     filter_cutoff |-> 0,
     filter_resonance15 |-> 0,    \* filter_resonance, numerator of n / 15.0
     filter_route |-> 0, filter_mode |-> 0, voice3_off |-> FALSE]

update_voice_register(voice, reg, data) ==
    CASE reg = 0 -> [voice EXCEPT !.freq = BitOr(voice.freq - (voice.freq % 256), data)]
      [] reg = 1 -> [voice EXCEPT !.freq = BitOr(voice.freq % 256, data * 256)]
      [] reg = 2 -> [voice EXCEPT !.pulse_width =
                        BitOr(BitAnd(voice.pulse_width, 3840), data)]
      [] reg = 3 -> [voice EXCEPT !.pulse_width =
                        BitOr(voice.pulse_width % 256, (data % 16) * 256)]
      [] reg = 4 -> [voice EXCEPT !.control = data]
      [] reg = 5 -> [voice EXCEPT !.attack_decay = data]
      [] reg = 6 -> [voice EXCEPT !.sustain_release = data]
      [] OTHER -> voice

SidRead(s, address) ==
    LET offset == address % 32
    IN  CASE offset = 27 -> s.voices[2].phase_accumulator \div 65536
          [] offset = 28 -> s.voices[2].envelope_counter
          [] OTHER -> Get(s.registers, offset)

\* SID.write: registers 0..20 are seven per voice
SidWrite(s, address, data) ==
    LET offset == address % 32
        s1 == [s EXCEPT !.registers = Put(@, offset, data)]
    IN  CASE offset <= 20 ->
               [s1 EXCEPT !.voices[offset \div 7] =
                   update_voice_register(@, offset % 7, data)]
          [] offset = 21 ->
               [s1 EXCEPT !.filter_cutoff = BitOr(BitAnd(@, 2040), data % 8)]
          [] offset = 22 ->
               [s1 EXCEPT !.filter_cutoff = BitOr(@ % 8, data * 8)]
          [] offset = 23 ->
               [s1 EXCEPT !.filter_resonance15 = data \div 16,
                          !.filter_route = data % 16]
          [] offset = 24 ->
               [s1 EXCEPT !.volume15 = data % 16,
                          !.filter_mode = BitAnd(data, 112),
                          !.voice3_off = (Bit(data, 7) = 1)]
          [] OTHER -> s1

----------------------------------------------------------------------------
(* CIA (src/cia.py).                                                       *)

CiaInit(name, is_cia1) ==
    [name |-> name, is_cia1 |-> is_cia1, registers |-> Zeros,
     keyboard_matrix |-> [r \in 0..7 |-> [c \in 0..7 |-> 1]],
     port_a_output |-> 255, port_b_output |-> 255,
     ddra |-> 0, ddrb |-> 0, joystick_state |-> 255,
     timer_a_latch |-> 0, timer_b_latch |-> 0,
     timer_a_counter |-> 0, timer_b_counter |-> 0,
     cra |-> 0, crb |-> 0, icr |-> 0, ifr |-> 0,
     timer_a_started |-> FALSE]

\* the row byte of one selected keyboard column: bit r is 0 iff the key is pressed
RowStateForCol(c, col_idx) ==
    LET RowBit(r) == IF c.keyboard_matrix[r][col_idx] = 0 THEN 0 ELSE 2 ^ r
    IN  ((RowBit(0) + RowBit(1)) + (RowBit(2) + RowBit(3)))
        + ((RowBit(4) + RowBit(5)) + (RowBit(6) + RowBit(7)))

\* result &= state for the eight columns of range(8), result starting at $FF:
\* the conjunction of the eight bytes, taken in pairs
AndOfColumns(State(_)) ==
    BitAnd(BitAnd(BitAnd(State(0), State(1)), BitAnd(State(2), State(3))),
           BitAnd(BitAnd(State(4), State(5)), BitAnd(State(6), State(7))))

\* CIA.read of port A with the column test left out: every column is scanned
PortAReadEveryColumn(c) ==
    LET Scanned(col_idx) == RowStateForCol(c, col_idx)
        final_result == BitAnd(AndOfColumns(Scanned), c.joystick_state)
    IN  BitOr(BitClear(final_result, c.ddra), BitAnd(c.port_a_output, c.ddra))

\* CIA.read of port A: a column whose bit of the port-A latch is 0 is scanned,
\* another leaves result as it is
CiaPortARead(c) ==
    LET Scanned(col_idx) ==
            IF Bit(c.port_a_output, col_idx) = 0
            THEN RowStateForCol(c, col_idx)
            ELSE 255
        final_result == BitAnd(AndOfColumns(Scanned), c.joystick_state)
    IN  BitOr(BitClear(final_result, c.ddra), BitAnd(c.port_a_output, c.ddra))

\* CIA.read: the value returned
CiaReadVal(c, address) ==
    LET offset == address % 16
    IN  CASE c.is_cia1 /\ offset = 0 -> CiaPortARead(c)
          [] c.is_cia1 /\ offset = 1 -> c.port_b_output
          [] c.is_cia1 /\ offset = 2 -> c.ddra
          [] c.is_cia1 /\ offset = 3 -> c.ddrb
          [] offset = 4 -> c.timer_a_counter % 256
          [] offset = 5 -> c.timer_a_counter \div 256
          [] offset = 6 -> c.timer_b_counter % 256
          [] offset = 7 -> c.timer_b_counter \div 256
          [] offset = 13 -> c.ifr
          [] OTHER -> Get(c.registers, offset)

\* a read that forgets to clear the interrupt flags
CiaReadKeepsIfr(c, address) == [val |-> CiaReadVal(c, address), cia |-> c]

\* CIA.read: the value returned and the chip afterwards (reading ICR clears ifr)
CiaRead(c, address) ==
    [val |-> CiaReadVal(c, address),
     cia |-> IF address % 16 = 13 THEN [c EXCEPT !.ifr = 0] ELSE c]

\* CIA.write
CiaWrite(c, address, data) ==
    LET Timers(offset, c1) ==
            CASE offset = 4 ->
                   [c1 EXCEPT !.timer_a_latch = BitOr(@ - (@ % 256), data)]
              [] offset = 5 ->
                   [c1 EXCEPT !.timer_a_latch = BitOr(@ % 256, data * 256),
                              !.timer_a_counter =
                                  IF Bit(c1.cra, 0) = 0
                                  THEN BitOr(c1.timer_a_latch % 256, data * 256)
                                  ELSE @]
              [] offset = 14 ->
                   [c1 EXCEPT !.cra = data, !.timer_a_started = (Bit(data, 0) = 1)]
              [] offset = 13 ->
                   [c1 EXCEPT !.icr = IF Bit(data, 7) = 1
                                      THEN BitOr(@, data % 128)
                                      ELSE BitClear(@, data % 128)]
              [] OTHER -> c1
        Ports(offset) ==
            IF ~c.is_cia1 THEN c
            ELSE CASE offset = 0 -> [c EXCEPT !.port_a_output = data]
                   [] offset = 1 -> [c EXCEPT !.port_b_output = data]
                   [] offset = 2 -> [c EXCEPT !.ddra = data]
                   [] offset = 3 -> [c EXCEPT !.ddrb = data]
                   [] OTHER -> c
    IN  [Timers(address % 16, Ports(address % 16))
            EXCEPT !.registers = Put(@, address % 16, data)]

\* CIA.set_key_state
set_key_state(c, row, col, pressed) ==
    IF c.is_cia1 /\ row \in 0..7 /\ col \in 0..7
    THEN [c EXCEPT !.keyboard_matrix[row][col] = IF pressed THEN 0 ELSE 1]
    ELSE c

\* CPU.irq and CPU.nmi: the request latches a peripheral sets
CpuIrq(p) == [p EXCEPT !.irq_pending = TRUE]

CpuNmi(p) == [p EXCEPT !.nmi_pending = TRUE]

\* CIA.tick with the run-mode test of control bit 3 left out: timer A reloads
\* and keeps running after every underflow
CiaTickAlwaysContinuous(m, which) ==
    LET c == m.cia[which]
        counter == c.timer_a_counter - 1
        underflow == c.timer_a_started /\ counter < 0
        enabled == Bit(c.icr, 0) = 1
        ifr1 == BitOr(c.ifr, 1)
        c1 == IF ~c.timer_a_started THEN c
              ELSE IF ~underflow THEN [c EXCEPT !.timer_a_counter = counter]
              ELSE [c EXCEPT
                      !.ifr = IF enabled THEN BitOr(ifr1, 128) ELSE ifr1,
                      !.timer_a_counter = c.timer_a_latch]
    IN  [m EXCEPT !.cia[which] = c1,
                  !.cpu = IF underflow /\ enabled THEN CpuIrq(m.cpu) ELSE @]

\* CIA.tick on chip which (a field name of cia), in machine m
CiaTick(m, which) ==
    LET c == m.cia[which]
        counter == c.timer_a_counter - 1
        underflow == c.timer_a_started /\ counter < 0
        enabled == Bit(c.icr, 0) = 1
        ifr1 == BitOr(c.ifr, 1)
        c1 == IF ~c.timer_a_started THEN c
              ELSE IF ~underflow THEN [c EXCEPT !.timer_a_counter = counter]
              ELSE [c EXCEPT
                      !.ifr = IF enabled THEN BitOr(ifr1, 128) ELSE ifr1,
                      !.timer_a_started = IF Bit(c.cra, 3) = 1 THEN FALSE ELSE @,
                      !.timer_a_counter = c.timer_a_latch]
    IN  [m EXCEPT !.cia[which] = c1,
                  !.cpu = IF underflow /\ enabled THEN CpuIrq(m.cpu) ELSE @]

----------------------------------------------------------------------------
(* VIC-II registers (src/vic2.py).                                         *)

SCREEN_WIDTH_CYCLES == 63
SCREEN_HEIGHT_RASTER == 312
VISIBLE_WIDTH == 320
VISIBLE_HEIGHT == 200
X_SCROLL_OFFSET == 24
Y_SCROLL_OFFSET == 50
NumVicRegisters == 47

SpriteInit(sprite_id) ==
    [id |-> sprite_id, x |-> 0, y |-> 0, color |-> 0, enabled |-> FALSE,
     expand_y |-> FALSE, expand_x |-> FALSE, priority |-> FALSE,
     is_multicolor |-> FALSE, pointer |-> 0]

\* The pygame screen_surface and the palette are the host's sink and are not kept.
\* sprite_scanline_buffer is sparse: a cell outside the domain holds (0, -1).
VicInit(char_image) ==
    [registers |-> Zeros, cycle |-> 0, raster_line |-> 0,
     sprites |-> [i \in 0..7 |-> SpriteInit(i)],
     sprite_scanline_buffer |-> [x \in {} |-> <<0, -1>>],
     sprite_sprite_collision |-> 0, sprite_data_collision |-> 0,
     char_rom |-> char_image]

VicReg(v, r) == Get(v.registers, r)

\* VICII.read: the value returned
VicReadVal(v, address) ==
    LET addr == address % 64
    IN  CASE addr = 17 -> v.raster_line % 256
          [] addr = 18 -> BitOr(VicReg(v, 18) % 128,
                                BitAnd(v.raster_line \div 2, 128))
          [] addr = 30 -> v.sprite_sprite_collision
          [] addr = 31 -> v.sprite_data_collision
          [] addr = 25 -> IF BitAnd(VicReg(v, 25), VicReg(v, 26)) # 0
                          THEN BitOr(VicReg(v, 25), 128)
                          ELSE VicReg(v, 25)
          [] OTHER -> IF addr < NumVicRegisters THEN VicReg(v, addr) ELSE 0

\* a read that leaves the collision latches alone
VicReadKeepsLatch(v, address) == [val |-> VicReadVal(v, address), vic |-> v]

\* VICII.read: the value returned and the chip afterwards
VicRead(v, address) ==
    LET addr == address % 64
    IN  [val |-> VicReadVal(v, address),
         vic |-> CASE addr = 30 -> [v EXCEPT !.sprite_sprite_collision = 0]
                   [] addr = 31 -> [v EXCEPT !.sprite_data_collision = 0]
                   [] OTHER -> v]

\* VICII.write
VicWrite(v, address, data) ==
    LET addr == address % 64
        v1 == IF addr < NumVicRegisters
              THEN [v EXCEPT !.registers = Put(v.registers, addr, data)]
              ELSE v
        bit(i) == Bit(data, i) = 1
    IN  CASE addr <= 15 ->
               IF addr % 2 = 1
               THEN [v1 EXCEPT !.sprites[addr \div 2].y = data]
               ELSE [v1 EXCEPT !.sprites[addr \div 2].x = data]
          [] addr = 16 ->
               [v1 EXCEPT !.sprites =
                   [i \in 0..7 |->
                      [v.sprites[i] EXCEPT !.x = IF bit(i) THEN BitOr(@, 256)
                                                 ELSE @ % 256]]]
          [] addr = 21 ->
               [v1 EXCEPT !.sprites =
                   [i \in 0..7 |-> [v.sprites[i] EXCEPT !.enabled = bit(i)]]]
          [] addr = 27 ->
               [v1 EXCEPT !.sprites =
                   [i \in 0..7 |-> [v.sprites[i] EXCEPT !.priority = bit(i)]]]
          [] addr = 23 ->
               [v1 EXCEPT !.sprites =
                   [i \in 0..7 |-> [v.sprites[i] EXCEPT !.expand_x = bit(i)]]]
          [] addr = 29 ->
               [v1 EXCEPT !.sprites =
                   [i \in 0..7 |-> [v.sprites[i] EXCEPT !.expand_y = bit(i)]]]
          [] addr = 28 ->
               [v1 EXCEPT !.sprites =
                   [i \in 0..7 |-> [v.sprites[i] EXCEPT !.is_multicolor = bit(i)]]]
          [] addr >= 39 /\ addr <= 46 ->
               [v1 EXCEPT !.sprites[addr - 39].color = data % 16]
          [] OTHER -> v1

----------------------------------------------------------------------------
(* MemoryManager and Bus (src/pyc64/memory.py, src/pyc64/bus.py).          *)

DefaultProcessorPort == 55

MemInit(basic_image, kernal_image, char_image) ==
    [ram |-> Zeros, basic_rom |-> basic_image, kernal_rom |-> kernal_image,
     char_rom |-> char_image, color_ram |-> Zeros,
     processor_port |-> DefaultProcessorPort]

loram(port) == Bit(port, 0) = 1
hiram(port) == Bit(port, 1) = 1
charen(port) == Bit(port, 2) = 1

InRange(address, lo, hi) == lo <= address /\ address <= hi

\* a read decode that shows the I/O chips only with LORAM, HIRAM and CHAREN all set
ReadSourceAllThree(port, address) ==
    CASE address = 0 -> "ddr"
      [] address = 1 -> "port"
      [] InRange(address, 40960, 49151) ->
           IF loram(port) /\ hiram(port) THEN "basic" ELSE "ram"
      [] InRange(address, 53248, 57343) ->
           IF loram(port) /\ hiram(port) /\ charen(port)
           THEN CASE InRange(address, 53248, 54271) -> "vic"
                  [] InRange(address, 54272, 55295) -> "sid"
                  [] InRange(address, 55296, 56319) -> "color"
                  [] InRange(address, 56320, 56575) -> "cia1"
                  [] InRange(address, 56576, 56831) -> "cia2"
                  [] OTHER -> "ram"
           ELSE "ram"
      [] InRange(address, 57344, 65535) ->
           IF hiram(port) THEN "kernal" ELSE "ram"
      [] OTHER -> "ram"

\* the decode of MemoryManager.read: which source answers a read of address
ReadSource(port, address) ==
    CASE address = 0 -> "ddr"
      [] address = 1 -> "port"
      [] InRange(address, 40960, 49151) ->
           IF loram(port) /\ hiram(port) THEN "basic" ELSE "ram"
      [] InRange(address, 53248, 57343) ->
           IF loram(port) \/ hiram(port)
           THEN IF charen(port)
                THEN CASE InRange(address, 53248, 54271) -> "vic"
                       [] InRange(address, 54272, 55295) -> "sid"
                       [] InRange(address, 55296, 56319) -> "color"
                       [] InRange(address, 56320, 56575) -> "cia1"
                       [] InRange(address, 56576, 56831) -> "cia2"
                       [] OTHER -> "ram"
                ELSE "char"
           ELSE "ram"
      [] InRange(address, 57344, 65535) ->
           IF hiram(port) THEN "kernal" ELSE "ram"
      [] OTHER -> "ram"

\* the answer of a chip whose read r changes the chip
ChipRead(m, src, address, r) ==
    [addr |-> address, val |-> r.val,
     m |-> IF src = "vic" THEN [m EXCEPT !.vic = r.vic]
           ELSE [m EXCEPT !.cia[src] = r.cia]]

\* MemoryManager.read once the decode has named the source: the address, the
\* value returned and the machine afterwards
DeviceRead(m, src, address) ==
    CASE src = "ddr" -> [addr |-> address, val |-> 47, m |-> m]
      [] src = "port" -> [addr |-> address, val |-> m.mem.processor_port, m |-> m]
      [] src = "basic" ->
           [addr |-> address, val |-> Get(m.mem.basic_rom, address - 40960), m |-> m]
      [] src \in {"vic", "cia1", "cia2"} ->
           ChipRead(m, src, address,
                    IF src = "vic" THEN VicRead(m.vic, address)
                    ELSE CiaRead(m.cia[src], address))
      [] src = "sid" -> [addr |-> address, val |-> SidRead(m.sid, address), m |-> m]
      [] src = "color" ->
           [addr |-> address, val |-> Get(m.mem.color_ram, address - 55296), m |-> m]
      [] src = "char" ->
           [addr |-> address, val |-> Get(m.mem.char_rom, address - 53248), m |-> m]
      [] src = "kernal" ->
           [addr |-> address, val |-> Get(m.mem.kernal_rom, address - 57344), m |-> m]
      [] OTHER -> [addr |-> address, val |-> Get(m.mem.ram, address), m |-> m]

\* Bus.read with its register side effects
BusRead(m, address) ==
    DeviceRead(m, ReadSource(m.mem.processor_port, address), address)

\* MemoryManager.read / Bus.read: the value returned
MemReadVal(m, address) == BusRead(m, address).val

\* MemoryManager.read / Bus.read: the machine after the read
MemReadEff(m, address) == BusRead(m, address).m

\* a write decode that lets a write under the visible KERNAL ROM through to RAM
WriteTargetUnderKernal(port, address) ==
    CASE InRange(address, 40960, 49151) ->
           IF loram(port) /\ hiram(port) THEN "dropped" ELSE "ram"
      [] InRange(address, 53248, 57343) ->
           IF loram(port) \/ hiram(port)
           THEN IF charen(port)
                THEN CASE InRange(address, 53248, 54271) -> "vic"
                       [] InRange(address, 54272, 55295) -> "sid"
                       [] InRange(address, 55296, 56319) -> "color"
                       [] InRange(address, 56320, 56575) -> "cia1"
                       [] InRange(address, 56576, 56831) -> "cia2"
                       [] OTHER -> "ram"
                ELSE IF InRange(address, 55296, 56319) THEN "color" ELSE "ram"
           ELSE "ram"
      [] OTHER -> "ram"

\* the decode of MemoryManager.write, taken after the port latch is updated
WriteTarget(port, address) ==
    CASE InRange(address, 40960, 49151) ->
           IF loram(port) /\ hiram(port) THEN "dropped" ELSE "ram"
      [] InRange(address, 53248, 57343) ->
           IF loram(port) \/ hiram(port)
           THEN IF charen(port)
                THEN CASE InRange(address, 53248, 54271) -> "vic"
                       [] InRange(address, 54272, 55295) -> "sid"
                       [] InRange(address, 55296, 56319) -> "color"
                       [] InRange(address, 56320, 56575) -> "cia1"
                       [] InRange(address, 56576, 56831) -> "cia2"
                       [] OTHER -> "ram"
                ELSE IF InRange(address, 55296, 56319) THEN "color" ELSE "ram"
           ELSE "ram"
      [] InRange(address, 57344, 65535) ->
           IF hiram(port) THEN "dropped" ELSE "ram"
      [] OTHER -> "ram"

\* a write of $0001 that reaches the RAM but not the bank-switching latch
LatchPortRamOnly(m, address, data) ==
    IF address = 1 THEN [m EXCEPT !.mem.ram = Put(@, 1, data)] ELSE m

\* MemoryManager.write, first part: a write of $0001 goes to RAM and to the latch
LatchPort(m, address, data) ==
    IF address = 1
    THEN [m EXCEPT !.mem.ram = Put(@, 1, data), !.mem.processor_port = data]
    ELSE m

\* MemoryManager.write once the decode has named the target
DeviceWrite(m, tgt, address, data) ==
    CASE tgt = "dropped" -> m
      [] tgt = "vic" -> [m EXCEPT !.vic = VicWrite(@, address, data)]
      [] tgt = "sid" -> [m EXCEPT !.sid = SidWrite(@, address, data)]
      [] tgt = "color" -> [m EXCEPT !.mem.color_ram = Put(@, address - 55296, data)]
      [] tgt \in {"cia1", "cia2"} -> [m EXCEPT !.cia[tgt] = CiaWrite(@, address, data)]
      [] OTHER -> [m EXCEPT !.mem.ram = Put(@, address, data)]

\* MemoryManager.write
MemWrite(m, address, data) ==
    DeviceWrite(LatchPort(m, address, data),
                WriteTarget(LatchPort(m, address, data).mem.processor_port, address),
                address, data)

\* Bus.write: the memory write, then the address joins the dirty set
BusWriteOp(m, address, data) ==
    [MemWrite(m, address, data) EXCEPT !.bus.memory_dirty_flags = @ \cup {address}]

----------------------------------------------------------------------------
(* VIC-II raster machinery (src/vic2.py).                                  *)

\* VICII.trigger_interrupt
trigger_interrupt(m, flag) ==
    [m EXCEPT !.vic.registers = Put(@, 25, BitOr(VicReg(m.vic, 25), flag)),
              !.cpu = IF BitAnd(VicReg(m.vic, 26), flag) # 0 THEN CpuIrq(@) ELSE @]

BufCell(buf, x) == IF x \in DOMAIN buf THEN buf[x] ELSE <<0, -1>>

\* the three data bytes of the row of sprite s that the raster line shows
SpriteRow(m, s, pointer) ==
    LET row == m.vic.raster_line - s.y
        sprite_row == IF s.expand_y THEN row \div 2 ELSE row
    IN  [pointer |-> pointer,
         bytes |-> <<MemReadVal(m, pointer * 64 + sprite_row * 3),
                     MemReadVal(m, pointer * 64 + sprite_row * 3 + 1),
                     MemReadVal(m, pointer * 64 + sprite_row * 3 + 2)>>]

\* the sprite's data pointer, read below the screen RAM, and its row bytes
SpriteRowBytes(m, s) ==
    SpriteRow(m, s, MemReadVal(m, (VicReg(m.vic, 24) \div 16) * 1024 + 1016 + s.id))

SpriteOnLine(v, s) ==
    /\ s.enabled
    /\ s.y <= v.raster_line
    /\ v.raster_line < s.y + (IF s.expand_y THEN 42 ELSE 21)

\* the number of sprite pixels of a row, the width of each, and whether pixel i is
\* opaque and with which colour
SpriteNumPixels(s) == IF s.is_multicolor THEN 12 ELSE 24

SpritePixelWidth(s) ==
    IF s.is_multicolor THEN (IF s.expand_x THEN 4 ELSE 2)
    ELSE (IF s.expand_x THEN 2 ELSE 1)

SpriteColorBits(s, bytes, i) ==
    IF s.is_multicolor
    THEN (bytes[(i \div 4) + 1] \div (2 ^ (6 - (i % 4) * 2))) % 4
    ELSE Bit(bytes[(i \div 8) + 1], 7 - (i % 8))

SpritePixelColor(v, s, bytes, i) ==
    IF s.is_multicolor
    THEN CASE SpriteColorBits(s, bytes, i) = 1 -> VicReg(v, 37) % 16
           [] SpriteColorBits(s, bytes, i) = 2 -> s.color
           [] SpriteColorBits(s, bytes, i) = 3 -> VicReg(v, 38) % 16
           [] OTHER -> 0
    ELSE s.color

\* the bits 1 << n of the sprites n of a set
IdBits(ids) ==
    LET IdBit(n) == IF n \in ids THEN 2 ^ n ELSE 0
    IN  IdBit(0) + IdBit(1) + IdBit(2) + IdBit(3)
        + IdBit(4) + IdBit(5) + IdBit(6) + IdBit(7)

\* one sprite drawn into the scanline buffer: acc = [buf, ssc, hit, ptrs].
\* Screen pixel k of the row (pixel i = k \div width of the data, widened)
\* falls on pixel_x = sprite.x + i * width - X_SCROLL_OFFSET + k % width, a
\* different place of the line for every k.  What the loops find at a place
\* is therefore what the sprites drawn before have left there: the ids found
\* under the opaque pixels join the collision bits with the sprite's own, and
\* the places take the sprite's colour and id.
DrawSprite(v, s, bytes, acc) ==
    LET width == SpritePixelWidth(s)
        PixelX(k) == s.x + ((k \div width) * width) - X_SCROLL_OFFSET + (k % width)
        Opaque(k) ==
            /\ SpriteColorBits(s, bytes, k \div width) # 0
            /\ 0 <= PixelX(k) /\ PixelX(k) < VISIBLE_WIDTH
        Colour(pixels, x) ==
            SpritePixelColor(v, s, bytes,
                             (CHOOSE k \in pixels : PixelX(k) = x) \div width)
        Stored(pixels, places, found) ==
            [acc EXCEPT
               !.buf = [x \in (DOMAIN acc.buf) \cup places |->
                          IF x \in places THEN <<Colour(pixels, x), s.id>>
                          ELSE acc.buf[x]],
               !.ssc = IF found # {} THEN BitOr(@, IdBits(found \cup {s.id})) ELSE @,
               !.hit = @ \/ found # {}]
        Placed(pixels, places) ==
            Stored(pixels, places, {BufCell(acc.buf, x)[2] : x \in places} \ {-1})
        Drawn(pixels) == Placed(pixels, {PixelX(k) : k \in pixels})
    IN  Drawn({k \in 0 .. (SpriteNumPixels(s) * width - 1) : Opaque(k)})

\* sprite n of the loop of render_sprites_on_scanline: a sprite that is on the
\* raster line has its pointer and its row read (the test of the pointer has
\* them read before the drawing is begun), and the row drawn
DrawOne(m, n, acc) ==
    LET Drawn(s, rb) ==
            IF rb.pointer < 0 THEN acc
            ELSE [DrawSprite(m.vic, s, rb.bytes, acc)
                     EXCEPT !.ptrs = [@ EXCEPT ![n] = rb.pointer]]
    IN  IF ~SpriteOnLine(m.vic, m.vic.sprites[n]) THEN acc
        ELSE Drawn(m.vic.sprites[n], SpriteRowBytes(m, m.vic.sprites[n]))

\* VICII.render_sprites_on_scanline: the sprites first .. final in turn, by
\* halves; the test of the collision bits has the first half drawn before the
\* second is begun
RECURSIVE DrawSprites(_, _, _, _)
DrawSprites(m, first, final, acc) ==
    LET half == (first + final) \div 2
        Onward(acc1) ==
            IF acc1.ssc >= 0 THEN DrawSprites(m, half + 1, final, acc1) ELSE acc1
    IN  IF first = final THEN DrawOne(m, first, acc)
        ELSE Onward(DrawSprites(m, first, half, acc))

render_sprites_on_scanline(m) ==
    LET empty == [x \in {} |-> <<0, -1>>]
        visible == Y_SCROLL_OFFSET <= m.vic.raster_line
                   /\ m.vic.raster_line < Y_SCROLL_OFFSET + VISIBLE_HEIGHT
        Collide(hit, m1) == IF hit THEN trigger_interrupt(m1, 4) ELSE m1
        Rendered(acc) ==
            Collide(acc.hit,
                    [m EXCEPT !.vic.sprite_scanline_buffer = acc.buf,
                              !.vic.sprite_sprite_collision = acc.ssc,
                              !.vic.sprites = [i \in 0..7 |->
                                                 [@[i] EXCEPT !.pointer = acc.ptrs[i]]]])
    IN  IF ~visible THEN [m EXCEPT !.vic.sprite_scanline_buffer = empty]
        ELSE Rendered(DrawSprites(m, 0, 7,
                 [buf |-> empty, ssc |-> m.vic.sprite_sprite_collision,
                  hit |-> FALSE,
                  ptrs |-> [i \in 0..7 |-> m.vic.sprites[i].pointer]]))

\* whether the background pixel under the beam is a foreground pixel
\* (the character or bitmap bit is set), as render_pixel computes it
BackgroundIsForeground(m, x_screen, y_screen) ==
    LET v == m.vic
        bitmap_mode == Bit(VicReg(v, 17), 5) = 1
        logical_x_pixel == (x_screen + (VicReg(v, 22) % 8)) % 320
        logical_y_pixel == (y_screen + (VicReg(v, 17) % 8)) % 200
        char_row == logical_y_pixel \div 8
        char_col == logical_x_pixel \div 8
        \* byte is the bitmap byte in bitmap mode, the screen code in character mode
        Pixel(byte) ==
            Bit(IF bitmap_mode THEN byte
                ELSE Get(v.char_rom, (byte * 8) + (logical_y_pixel % 8)),
                7 - (logical_x_pixel % 8)) = 1
    IN  Pixel(MemReadVal(m,
                  IF bitmap_mode
                  THEN Bit(VicReg(v, 24), 3) * 8192 + (char_row * 320)
                       + (char_col * 8) + (logical_y_pixel % 8)
                  ELSE (VicReg(v, 24) \div 16) * 1024 + (char_row * 40) + char_col))

\* VICII.render_pixel: its effect on the chip (the sprite-data collision latch)
render_pixel(m) ==
    LET y_screen == m.vic.raster_line - Y_SCROLL_OFFSET
        x_screen == m.vic.cycle - X_SCROLL_OFFSET
        inside == 0 <= x_screen /\ x_screen < VISIBLE_WIDTH
                  /\ 0 <= y_screen /\ y_screen < VISIBLE_HEIGHT
        sprite_info == BufCell(m.vic.sprite_scanline_buffer, x_screen)
    IN  IF inside /\ sprite_info[1] # 0 /\ sprite_info[2] # -1
           /\ BackgroundIsForeground(m, x_screen, y_screen)
        THEN trigger_interrupt(
                 [m EXCEPT !.vic.sprite_data_collision = BitOr(@, 2 ^ sprite_info[2])],
                 2)
        ELSE m

RasterCompare(v) == BitOr(VicReg(v, 18), BitAnd(VicReg(v, 17), 128) * 2)

\* VICII.tick after render_pixel: the beam moves on, and at the end of a line
\* the next line's sprites are rendered and the raster compare is made
AdvanceBeam(m1) ==
    LET EndOfFrame(m4) ==
            IF m4.vic.raster_line >= SCREEN_HEIGHT_RASTER
            THEN [m4 EXCEPT !.vic.raster_line = 0] ELSE m4
        Compare(m3) ==
            EndOfFrame(IF m3.vic.raster_line = RasterCompare(m3.vic)
                       THEN trigger_interrupt(m3, 1) ELSE m3)
    IN  IF m1.vic.cycle + 1 >= SCREEN_WIDTH_CYCLES
        THEN Compare(render_sprites_on_scanline(
                         [m1 EXCEPT !.vic.cycle = 0, !.vic.raster_line = @ + 1]))
        ELSE [m1 EXCEPT !.vic.cycle = @ + 1]

\* VICII.tick
VicTick(m) == AdvanceBeam(render_pixel(m))

\* VICII.is_badline
is_badline(v) ==
    LET display_enabled == Bit(VicReg(v, 17), 4) = 1
        is_visible_scanline == 50 <= v.raster_line /\ v.raster_line < 250
    IN  /\ display_enabled
        /\ is_visible_scanline
        /\ \/ v.raster_line % 8 = VicReg(v, 17) % 8
           \/ \E i \in 0..7 : v.sprites[i].enabled /\ v.sprites[i].y = v.raster_line

\* VICII.get_cycles_stolen
get_cycles_stolen == 40

----------------------------------------------------------------------------
(* The opcode tables (src/cpu_6502.py: commands, cycles, increments).      *)

\* the keys of self.commands, the undocumented NOPs included
Opcodes ==
    {0, 1, 3, 4, 5, 6, 7, 8, 9, 10, 12, 13, 14, 15, 16, 17, 19, 20, 21, 22, 23, 24, 25,
     26, 27, 28, 29, 30, 31, 32, 33, 35, 36, 37, 38, 39, 40, 41, 42, 44, 45, 46, 47,
     48, 49, 51, 52, 53, 54, 55, 56, 57, 58, 59, 60, 61, 62, 63, 64, 65, 68, 69, 70,
     72, 73, 74, 76, 77, 78, 80, 81, 84, 85, 86, 88, 89, 90, 92, 93, 94, 96, 97, 100,
     101, 102, 104, 105, 106, 108, 109, 110, 112, 113, 116, 117, 118, 120, 121, 122,
     124, 125, 126, 128, 129, 130, 131, 132, 133, 134, 135, 136, 137, 138, 140, 141,
     142, 143, 144, 145, 148, 149, 150, 151, 152, 153, 154, 157, 160, 161, 162, 163,
     164, 165, 166, 167, 168, 169, 170, 172, 173, 174, 175, 176, 177, 179, 180, 181,
     182, 183, 184, 185, 186, 188, 189, 190, 191, 192, 193, 194, 195, 196, 197, 198,
     199, 200, 201, 202, 204, 205, 206, 207, 208, 209, 211, 212, 213, 214, 215, 216,
     217, 218, 219, 220, 221, 222, 223, 224, 225, 226, 228, 229, 230, 232, 233, 234,
     236, 237, 238, 240, 241, 244, 245, 246, 248, 249, 250, 252, 253, 254}

\* self.commands[op]["f"]
Mnemonic(op) ==
    CASE op \in {0} -> "BRK"
      [] op \in {1, 5, 9, 13, 17, 21, 25, 29} -> "ORA"
      [] op \in {3, 7, 15, 19, 23, 27, 31} -> "SLO"
      [] op \in {4, 12, 20, 26, 28, 52, 58, 60, 68, 84, 90, 92, 100, 116, 122, 124, 128,
                130, 137, 194, 212, 218, 220, 226, 234, 244, 250, 252} -> "NOP"
      [] op \in {6, 10, 14, 22, 30} -> "ASL"
      [] op \in {8} -> "PHP"
      [] op \in {16} -> "BPL"
      [] op \in {24} -> "CLC"
      [] op \in {32} -> "JSR"
      [] op \in {33, 37, 41, 45, 49, 53, 57, 61} -> "AND"
      [] op \in {35, 39, 47, 51, 55, 59, 63} -> "RLA"
      [] op \in {36, 44} -> "BIT"
      [] op \in {38, 42, 46, 54, 62} -> "ROL"
      [] op \in {40} -> "PLP"
      [] op \in {48} -> "BMI"
      [] op \in {56} -> "SEC"
      [] op \in {64} -> "RTI"
      [] op \in {65, 69, 73, 77, 81, 85, 89, 93} -> "EOR"
      [] op \in {70, 74, 78, 86, 94} -> "LSR"
      [] op \in {72} -> "PHA"
      [] op \in {76, 108} -> "JMP"
      [] op \in {80} -> "BVC"
      [] op \in {88} -> "CLI"
      [] op \in {96} -> "RTS"
      [] op \in {97, 101, 105, 109, 113, 117, 121, 125} -> "ADC"
      [] op \in {102, 106, 110, 118, 126} -> "ROR"
      [] op \in {104} -> "PLA"
      [] op \in {112} -> "BVS"
      [] op \in {120} -> "SEI"
      [] op \in {129, 133, 141, 145, 149, 153, 157} -> "STA"
      [] op \in {131, 135, 143, 151} -> "SAX"
      [] op \in {132, 140, 148} -> "STY"
      [] op \in {134, 142, 150} -> "STX"
      [] op \in {136} -> "DEY"
      [] op \in {138} -> "TXA"
      [] op \in {144} -> "BCC"
      [] op \in {152} -> "TYA"
      [] op \in {154} -> "TXS"
      [] op \in {160, 164, 172, 180, 188} -> "LDY"
      [] op \in {161, 165, 169, 173, 177, 181, 185, 189} -> "LDA"
      [] op \in {162, 166, 174, 182, 190} -> "LDX"
      [] op \in {163, 167, 175, 179, 183, 191} -> "LAX"
      [] op \in {168} -> "TAY"
      [] op \in {170} -> "TAX"
      [] op \in {176} -> "BCS"
      [] op \in {184} -> "CLV"
      [] op \in {186} -> "TSX"
      [] op \in {192, 196, 204} -> "CPY"
      [] op \in {193, 197, 201, 205, 209, 213, 217, 221} -> "CMP"
      [] op \in {195, 199, 207, 211, 215, 219, 223} -> "DCP"
      [] op \in {198, 206, 214, 222} -> "DEC"
      [] op \in {200} -> "INY"
      [] op \in {202} -> "DEX"
      [] op \in {208} -> "BNE"
      [] op \in {216} -> "CLD"
      [] op \in {224, 228, 236} -> "CPX"
      [] op \in {225, 229, 233, 237, 241, 245, 249, 253} -> "SBC"
      [] op \in {230, 238, 246, 254} -> "INC"
      [] op \in {232} -> "INX"
      [] op \in {240} -> "BEQ"
      [] op \in {248} -> "SED"
      [] OTHER -> "none"

\* self.commands[op]["m"]
AddrMode(op) ==
    CASE op \in {0, 4, 8, 12, 20, 24, 26, 28, 40, 52, 56, 58, 60, 64, 68, 72, 84, 88,
                90, 92, 96, 100, 104, 116, 120, 122, 124, 128, 130, 136, 137, 138, 152,
                154, 168, 170, 184, 186, 194, 200, 202, 212, 216, 218, 220, 226, 232,
                234, 244, 248, 250, 252} -> "IMPLIED"
      [] op \in {1, 3, 33, 35, 65, 97, 129, 131, 161, 163, 193, 195, 225} -> "INDIRECTX"
      [] op \in {5, 6, 7, 36, 37, 38, 39, 69, 70, 101, 102, 132, 133, 134, 135, 164,
                165, 166, 167, 196, 197, 198, 199, 228, 229, 230} -> "ZEROPAGE"
      [] op \in {9, 41, 73, 105, 160, 162, 169, 192, 201, 224, 233} -> "IMMEDIATE"
      [] op \in {10, 42, 74, 106} -> "ACCUMULATOR"
      [] op \in {13, 14, 15, 32, 44, 45, 46, 47, 76, 77, 78, 109, 110, 140, 141, 142,
                143, 172, 173, 174, 175, 204, 205, 206, 207, 236, 237, 238} -> "ABSOLUTE"
      [] op \in {16, 48, 80, 112, 144, 176, 208, 240} -> "RELATIVE"
      [] op \in {17, 19, 49, 51, 81, 113, 145, 177, 179, 209, 211, 241} -> "INDIRECTY"
      [] op \in {21, 22, 23, 53, 54, 55, 85, 86, 117, 118, 148, 149, 180, 181, 213, 214,
                215, 245, 246} -> "ZEROPAGEX"
      [] op \in {25, 27, 57, 59, 89, 121, 153, 185, 190, 191, 217, 219, 249} -> "ABSOLUTEY"
      [] op \in {29, 30, 31, 61, 62, 63, 93, 94, 125, 126, 157, 188, 189, 221, 222, 223,
                253, 254} -> "ABSOLUTEX"
      [] op \in {108} -> "INDIRECT"
      [] op \in {150, 151, 182, 183} -> "ZEROPAGEY"
      [] OTHER -> "none"

\* self.cycles.get(op, 2), after the undocumented and NOP tables are merged in
CycleCount(op) ==
    CASE op \in {0, 27, 30, 31, 59, 62, 63, 94, 126, 219, 222, 223, 254} -> 7
      [] op \in {1} -> 0
      [] op \in {3, 19, 35, 51, 195, 211} -> 8
      [] op \in {4, 5, 36, 37, 68, 69, 72, 76, 100, 101, 132, 133, 134, 135, 164, 165,
                166, 167, 196, 197, 228, 229} -> 3
      [] op \in {6, 7, 17, 38, 39, 49, 70, 81, 102, 108, 113, 153, 157, 177, 179, 198,
                199, 209, 230, 241} -> 5
      [] op \in {8, 9, 10, 16, 24, 26, 40, 41, 42, 48, 56, 58, 73, 74, 80, 88, 90, 105,
                106, 112, 120, 122, 128, 130, 136, 137, 138, 144, 152, 154, 160, 162,
                168, 169, 170, 176, 184, 186, 192, 194, 200, 201, 202, 208, 216, 218,
                224, 226, 232, 233, 234, 240, 248, 250} -> 2
      [] op \in {12, 13, 20, 21, 25, 28, 29, 44, 45, 52, 53, 57, 60, 61, 77, 84, 85, 89,
                92, 93, 104, 109, 116, 117, 121, 124, 125, 140, 141, 142, 143, 148,
                149, 150, 151, 172, 173, 174, 175, 180, 181, 182, 183, 185, 188, 189,
                190, 191, 204, 205, 212, 213, 217, 220, 221, 236, 237, 244, 245, 249,
                252, 253} -> 4
      [] op \in {14, 15, 22, 23, 32, 33, 46, 47, 54, 55, 64, 65, 78, 86, 96, 97, 110,
                118, 129, 131, 145, 161, 163, 193, 206, 207, 214, 215, 225, 238, 246} -> 6
      [] OTHER -> 2

\* self.increments.get(mode, 1)
Increment(mode) ==
    CASE mode \in {"IMMEDIATE", "ZEROPAGE", "ZEROPAGEX", "ZEROPAGEY", "RELATIVE",
                   "INDIRECTX", "INDIRECTY"} -> 2
      [] mode \in {"ABSOLUTE", "ABSOLUTEX", "ABSOLUTEY", "INDIRECT"} -> 3
      [] OTHER -> 1


----------------------------------------------------------------------------
(* The disk drive (src/pyc64/peripherals/drive.py).  A disk image is the    *)
(* list of the file's bytes, kept as its length and the bytes that are not  *)
(* zero.  A file name is the list of the character codes of the string.     *)

NoFiles == [name \in {} |-> <<0, 0>>]

\* DiskDrive1541.__init__: disk_image None is the empty tuple, an attached
\* image is the tuple of one image.  disk_name is not kept.
DriveInit == [disk_image |-> << >>, directory |-> NoFiles]

\* the number of the sector in the image (_get_sector_data, _write_sector_data)
SectorOffset(track, sector) ==
    (IF 1 <= track /\ track <= 17 THEN (track - 1) * 21
     ELSE IF 18 <= track /\ track <= 24 THEN 17 * 21 + (track - 18) * 19
     ELSE IF 25 <= track /\ track <= 30 THEN 17 * 21 + 7 * 19 + (track - 25) * 18
     ELSE 17 * 21 + 7 * 19 + 6 * 18 + (track - 31) * 17) + sector

\* DiskDrive1541._get_sector_data: None (the empty list here, the callers only
\* test it for truth) with no image, else the slice
\* disk_image[offset : offset + 256], which is short or empty past the end
get_sector_data(disk_image, track, sector) ==
    LET offset == SectorOffset(track, sector) * 256
        size == disk_image[1].size
        n == IF offset >= size THEN 0
             ELSE IF size - offset < 256 THEN size - offset
             ELSE 256
    IN  IF disk_image = << >> THEN <<>>
        ELSE [k \in 1 .. n |-> Get(disk_image[1].data, offset + k - 1)]

\* list[first : last] of Python for 0 <= first
Slice(list, first, stop) ==
    LET end == IF stop > Len(list) THEN Len(list) ELSE stop
    IN  IF end <= first THEN <<>> ELSE SubSeq(list, first + 1, end)

\* bytes.decode('petscii-c64en-lc', errors='ignore') for letters, digits and
\* space: $41..$5A are the small letters, $61..$7A and $C1..$DA the capitals
PetsciiChar(byte) ==
    IF byte \in 65 .. 90 THEN byte + 32
    ELSE IF byte \in 97 .. 122 THEN byte - 32
    ELSE IF byte \in 193 .. 218 THEN byte - 128
    ELSE byte

Decode(bytes) == [k \in 1 .. Len(bytes) |-> PetsciiChar(bytes[k])]

\* str.upper
Upper(name) ==
    [k \in 1 .. Len(name) |-> IF name[k] \in 97 .. 122 THEN name[k] - 32 ELSE name[k]]

\* str.strip: the spaces at both ends go
RECURSIVE Strip(_)
Strip(name) ==
    IF name = <<>> THEN name
    ELSE IF Head(name) = 32 THEN Strip(Tail(name))
    ELSE IF name[Len(name)] = 32 THEN Strip(SubSeq(name, 1, Len(name) - 1))
    ELSE name

\* the eight 32-byte entries of a directory sector, from entry i on: a PRG
\* entry puts its name, without the $A0 padding, into the directory
RECURSIVE DirEntries(_, _, _)
DirEntries(dir_sector, i, directory) ==
    IF i >= 256 THEN directory
    ELSE LET entry == Slice(dir_sector, i, i + 32)
             filename == Upper(Strip(Decode(SelectSeq(Slice(entry, 5, 21),
                                                      LAMBDA b : b # 160))))
         IN  DirEntries(dir_sector, i + 32,
                        IF entry[3] # 0 /\ entry[3] % 8 = 2
                        THEN (filename :> <<entry[4], entry[5]>>) @@ directory
                        ELSE directory)

\* the loop of _parse_directory from the directory sector (track, sector) on
RECURSIVE DirChain(_, _, _, _)
DirChain(disk_image, track, sector, directory) ==
    LET dir_sector == get_sector_data(disk_image, track, sector)
    IN  IF dir_sector = <<>> THEN directory
        ELSE IF dir_sector[1] = 0 THEN DirEntries(dir_sector, 0, directory)
        ELSE DirChain(disk_image, dir_sector[1], dir_sector[2],
                      DirEntries(dir_sector, 0, directory))

\* DiskDrive1541._parse_directory
parse_directory(drive) ==
    IF drive.disk_image = << >> \/ drive.disk_image[1].size = 0 THEN drive
    ELSE [drive EXCEPT !.directory = DirChain(drive.disk_image, 18, 1, NoFiles)]

\* DiskDrive1541.attach_disk_image on a file given by whether it exists and
\* the bytes it holds
attach_disk_image(drive, file) ==
    IF file.found
    THEN parse_directory([drive EXCEPT !.disk_image = <<file.image>>])
    ELSE [drive EXCEPT !.disk_image = << >>]

\* the loop of load_file from the sector (track, sector) on
RECURSIVE FileChain(_, _, _, _)
FileChain(disk_image, track, sector, file_data) ==
    LET sector_data == get_sector_data(disk_image, track, sector)
        next_track == sector_data[1]
        next_sector == sector_data[2]
        bytes_in_sector == IF next_track # 0 THEN next_sector ELSE 256
    IN  IF sector_data = <<>> THEN file_data
        ELSE IF next_track = 0
             THEN file_data \o Slice(sector_data, 2, bytes_in_sector)
        ELSE FileChain(disk_image, next_track, next_sector,
                       file_data \o Slice(sector_data, 2, bytes_in_sector))

\* DiskDrive1541.load_file: None is found FALSE
load_file(drive, filename) ==
    IF Upper(filename) \notin DOMAIN drive.directory
    THEN [found |-> FALSE, data |-> <<>>]
    ELSE [found |-> TRUE,
          data |-> FileChain(drive.disk_image,
                             drive.directory[Upper(filename)][1],
                             drive.directory[Upper(filename)][2], <<>>)]

\* DiskDrive1541._write_sector_data: disk_image[offset : offset + 256] = data,
\* the slice assignment of Python, which appends past the end of the list
write_sector_data(disk_image, track, sector, data) ==
    LET image == disk_image[1]
        offset == SectorOffset(track, sector) * 256
        start == IF offset > image.size THEN image.size ELSE offset
        kept == (DOMAIN image.data) \ (start .. start + 255)
        set == {start + k - 1 : k \in {j \in 1 .. 256 : data[j] # 0}}
    IN  IF disk_image = << >> \/ image.size = 0 \/ Len(data) # 256 THEN disk_image
        ELSE <<[size |-> IF start + 256 > image.size THEN start + 256
                         ELSE image.size,
                data |-> [o \in kept \cup set |->
                            IF o \in set THEN data[o - start + 1]
                            ELSE image.data[o]]]>>

\* the sectors of one track whose bit is set in the three bytes of the BAM
FreeSectors(bitmap) ==
    {sector \in 0 .. 20 : Bit(bitmap[(sector \div 8) + 1], sector % 8) = 1}

Least(set) == CHOOSE x \in set : \A y \in set : x <= y

\* DiskDrive1541._find_free_sector from start_track on: the first sector free
\* in the BAM of track 18 sector 0, or None (the empty tuple)
RECURSIVE find_free_sector(_, _)
find_free_sector(disk_image, start_track) ==
    LET bam_sector == get_sector_data(disk_image, 18, 0)
        bitmap == Slice(bam_sector, start_track * 4 + 1, start_track * 4 + 4)
    IN  IF bam_sector = <<>> \/ start_track >= 36 THEN << >>
        ELSE IF bam_sector[start_track * 4 + 1] > 0 /\ FreeSectors(bitmap) # {}
        THEN <<start_track, Least(FreeSectors(bitmap))>>
        ELSE find_free_sector(disk_image, start_track + 1)

\* the first entry of a directory sector whose type byte is 0, or -1
FreeEntry(dir_sector_data) ==
    LET free == {i \in {0, 32, 64, 96, 128, 160, 192, 224} :
                    dir_sector_data[i + 3] = 0}
    IN  IF free = {} THEN -1 ELSE Least(free)

\* step 1 of save_file: the directory sector with a free entry, from (track,
\* sector) on; track 0 when the directory is full
RECURSIVE FreeDirSector(_, _, _)
FreeDirSector(disk_image, track, sector) ==
    LET dir_sector_data == get_sector_data(disk_image, track, sector)
    IN  IF FreeEntry(dir_sector_data) # -1 THEN <<track, sector>>
        ELSE IF dir_sector_data[1] = 0 THEN <<0, 0>>
        ELSE FreeDirSector(disk_image, dir_sector_data[1], dir_sector_data[2])

\* str.encode('petscii-c64en-uc', errors='replace') for capitals, digits and
\* space; any other character is replaced by '?'
EncodeUc(name) ==
    [k \in 1 .. Len(name) |->
        IF name[k] \in (65 .. 90) \cup (48 .. 57) \cup {32} THEN name[k] ELSE 63]

\* step 3 of save_file: the 32 bytes of the new PRG entry
NewEntry(filename, file_track, file_sector) ==
    [k \in 1 .. 32 |->
        CASE k = 3 -> 130
          [] k = 4 -> file_track
          [] k = 5 -> file_sector
          [] k \in 6 .. 21 ->
               IF k - 5 <= Len(filename) THEN EncodeUc(Upper(filename))[k - 5]
               ELSE 160
          [] OTHER -> 0]

\* step 4 of save_file: the one sector the data is written to
DataSector(data) ==
    [k \in 1 .. 256 |->
        CASE k = 1 -> 0
          [] k = 2 -> Len(data) + 2
          [] k - 2 \in 1 .. Len(data) -> data[k - 2]
          [] OTHER -> 0]

\* the directory sector with the new entry in place of its free entry
WithEntry(dir_sector_data, entry) ==
    [k \in 1 .. 256 |->
        IF k - FreeEntry(dir_sector_data) \in 1 .. 32
        THEN entry[k - FreeEntry(dir_sector_data)]
        ELSE dir_sector_data[k]]

\* DiskDrive1541.save_file for a name of at most 16 characters.  Data of more
\* than 253 bytes makes the byte count of step 4 exceed 255: the ValueError
\* leaves the directory entry written and the data sector not.
save_file(drive, filename, data) ==
    LET dir == FreeDirSector(drive.disk_image, 18, 1)
        free == find_free_sector(drive.disk_image, 1)
        dir_sector_data == get_sector_data(drive.disk_image, dir[1], dir[2])
        entered == write_sector_data(drive.disk_image, dir[1], dir[2],
                                     WithEntry(dir_sector_data,
                                               NewEntry(filename, free[1], free[2])))
    IN  IF drive.disk_image = << >> \/ drive.disk_image[1].size = 0
        THEN [saved |-> FALSE, raised |-> FALSE, drive |-> drive]
        ELSE IF dir[1] = 0 \/ free = << >>
        THEN [saved |-> FALSE, raised |-> FALSE, drive |-> drive]
        ELSE IF Len(data) > 253
        THEN [saved |-> FALSE, raised |-> TRUE,
              drive |-> [drive EXCEPT !.disk_image = entered]]
        ELSE [saved |-> TRUE, raised |-> FALSE,
              drive |-> [drive EXCEPT !.disk_image =
                           write_sector_data(entered, free[1], free[2],
                                             DataSector(data))]]

----------------------------------------------------------------------------
(* The CPU (src/pyc64/cpu.py): registers, addressing, stack and interrupts. *)

BitXor(a, b) == a + b - 2 * BitAnd(a, b)

\* CPU.__init__.  Breakpoints, tracing and the debugger prompt are not kept.
CpuInit ==
    [a |-> 0, x |-> 0, y |-> 0, pc |-> 4096, sp |-> 255,
     irq_pending |-> FALSE, nmi_pending |-> FALSE,
     cycles_remaining |-> 0, total_cycles |-> 0,
     n |-> FALSE, v |-> FALSE, b |-> FALSE, d |-> FALSE,
     i |-> FALSE, z |-> FALSE, c |-> FALSE]

\* CPU.wrap: one correction step, as the code does it
wrap(value) ==
    IF value > 255 THEN value % 256
    ELSE IF value < 0 THEN value + 256
    ELSE value

\* CPU.set_nz on the CPU record p (value may be a negative Python int)
set_nz(p, value) ==
    [p EXCEPT !.z = (value = 0), !.n = (Bit(value % 256, 7) = 1)]

\* the 16-bit word at two given addresses
Word(m, lo_addr, hi_addr) == MemReadVal(m, hi_addr) * 256 + MemReadVal(m, lo_addr)

\* CPU.get_location_by_mode once the two operand bytes are read (lsb at pc + 1,
\* msb at pc + 2); the indirect modes read the pointer they name
LocationFor(m, mode, lsb, msb) ==
    LET ptr == CASE mode = "INDIRECT" -> msb * 256 + lsb
                 [] mode = "INDIRECTX" -> (lsb + m.cpu.x) % 256
                 [] OTHER -> lsb
        ptr_hi == IF mode = "INDIRECT" THEN ptr + 1 ELSE (ptr + 1) % 256
    IN  CASE mode = "IMMEDIATE" -> m.cpu.pc + 1
          [] mode = "ABSOLUTE" -> msb * 256 + lsb
          [] mode = "ABSOLUTEX" -> msb * 256 + lsb + m.cpu.x
          [] mode = "ABSOLUTEY" -> msb * 256 + lsb + m.cpu.y
          [] mode = "ZEROPAGE" -> lsb
          [] mode = "ZEROPAGEX" -> lsb + m.cpu.x
          [] mode = "ZEROPAGEY" -> lsb + m.cpu.y
          [] mode = "RELATIVE" -> m.cpu.pc + 1
          [] mode \in {"INDIRECT", "INDIRECTX", "INDIRECTY"} ->
               Word(m, ptr, ptr_hi) + (IF mode = "INDIRECTY" THEN m.cpu.y ELSE 0)
          [] OTHER -> 0

\* CPU.get_location_by_mode.  The operand bytes and the zero-page pointers are
\* read for their value.
get_location_by_mode(m, mode) ==
    LocationFor(m, mode, MemReadVal(m, m.cpu.pc + 1), MemReadVal(m, m.cpu.pc + 2))

Page(address) == address \div 256

\* CPU.page_boundary_crossed: the base address against the indexed address
page_boundary_crossed(m, mode) ==
    LET Crossed(address, index) == Page(address) % 256 # Page(address + index) % 256
        Base(lsb, msb) ==
            IF mode = "INDIRECTY" THEN Word(m, lsb, (lsb + 1) % 256)
            ELSE msb * 256 + lsb
    IN  /\ mode \in {"ABSOLUTEX", "ABSOLUTEY", "INDIRECTY"}
        /\ Crossed(Base(MemReadVal(m, m.cpu.pc + 1), MemReadVal(m, m.cpu.pc + 2)),
                   IF mode = "ABSOLUTEX" THEN m.cpu.x ELSE m.cpu.y)

\* the status byte PHP builds: B is weighted 32 and 16 is always added
StatusByte(p) ==
    (IF p.n THEN 128 ELSE 0) + (IF p.v THEN 64 ELSE 0) + (IF p.b THEN 32 ELSE 0)
    + 16 + (IF p.d THEN 8 ELSE 0) + (IF p.i THEN 4 ELSE 0)
    + (IF p.z THEN 2 ELSE 0) + (IF p.c THEN 1 ELSE 0)

\* bus.write(0x0100 + sp, value), then sp -= 1 and sp = wrap(sp)
PushByte(m, value) ==
    [BusWriteOp(m, 256 + m.cpu.sp, value) EXCEPT !.cpu.sp = wrap(@ - 1)]

PHP(m, mode) == PushByte(m, StatusByte(m.cpu))

PLP(m, mode) ==
    LET Pulled(sp1, r) ==
            [r.m EXCEPT !.cpu.sp = sp1,
                        !.cpu.n = (Bit(r.val, 7) = 1), !.cpu.v = (Bit(r.val, 6) = 1),
                        !.cpu.b = (Bit(r.val, 5) = 1), !.cpu.d = (Bit(r.val, 3) = 1),
                        !.cpu.i = (Bit(r.val, 2) = 1), !.cpu.z = (Bit(r.val, 1) = 1),
                        !.cpu.c = (Bit(r.val, 0) = 1)]
    IN  Pulled(wrap(m.cpu.sp + 1), BusRead(m, 256 + wrap(m.cpu.sp + 1)))

PHA(m, mode) == PushByte(m, m.cpu.a)

PLA(m, mode) ==
    LET Pulled(sp1, r) ==
            [r.m EXCEPT !.cpu = set_nz([@ EXCEPT !.sp = sp1, !.a = r.val], r.val)]
    IN  Pulled(wrap(m.cpu.sp + 1), BusRead(m, 256 + wrap(m.cpu.sp + 1)))

\* the PC is loaded from a vector; the vectors lie above $E000, where a read
\* has no side effect
LoadVector(m, vector) == [m EXCEPT !.cpu.pc = Word(m, vector, vector + 1)]

\* the part handle_irq and handle_nmi share: PC high and low are pushed with a
\* plain sp -= 1 (no wrap; the bus writes leave sp alone, so the second byte
\* goes one below the first), B is cleared, the status is pushed by PHP, I is
\* set and the PC is loaded from the vector
EnterInterrupt(m, vector) ==
    LoadVector(
        [PHP([BusWriteOp(BusWriteOp(m, 256 + m.cpu.sp, (m.cpu.pc \div 256) % 256),
                         256 + m.cpu.sp - 1, m.cpu.pc % 256)
                 EXCEPT !.cpu.sp = @ - 2, !.cpu.b = FALSE],
             "IMPLIED")
            EXCEPT !.cpu.i = TRUE],
        vector)

\* CPU.handle_irq
handle_irq(m) ==
    [EnterInterrupt(m, 65534) EXCEPT !.cpu.irq_pending = FALSE]

\* CPU.handle_nmi
handle_nmi(m) ==
    [EnterInterrupt(m, 65530) EXCEPT !.cpu.nmi_pending = FALSE]

\* Bus.load_program: one bus write per byte, in the order of the data. The
\* loop is unfolded by halves, and the test of the PC has the first half
\* written before the second is begun
RECURSIVE load_program(_, _, _)
load_program(m, start_address, program_data) ==
    IF program_data = <<>> THEN m
    ELSE IF Len(program_data) = 1
    THEN BusWriteOp(m, start_address, program_data[1])
    ELSE LET half == Len(program_data) \div 2
             Onward(m1) ==
                 IF m1.cpu.pc >= 0
                 THEN load_program(m1, start_address + half,
                                   SubSeq(program_data, half + 1, Len(program_data)))
                 ELSE m1
         IN  Onward(load_program(m, start_address, SubSeq(program_data, 1, half)))

\* the bytes bus.read returns for the addresses first .. first + count - 1
ReadRange(m, first, count) == [k \in 1 .. count |-> MemReadVal(m, first + k - 1)]

\* the file name of the KERNAL call: its length at $B8, its address at $BB/$BC
TrapFileName(m) == Decode(ReadRange(m, Word(m, 187, 188), MemReadVal(m, 184)))

\* bus.write(load_addr + i, byte) for every byte of program_data in turn, by
\* halves; the test of the PC has the first half written before the second is
\* begun
RECURSIVE WriteData(_, _, _)
WriteData(m, load_addr, program_data) ==
    IF program_data = <<>> THEN m
    ELSE IF Len(program_data) = 1 THEN BusWriteOp(m, load_addr, program_data[1])
    ELSE LET half == Len(program_data) \div 2
             Onward(m1) ==
                 IF m1.cpu.pc >= 0
                 THEN WriteData(m1, load_addr + half,
                                SubSeq(program_data, half + 1, Len(program_data)))
                 ELSE m1
         IN  Onward(WriteData(m, load_addr, SubSeq(program_data, 1, half)))

\* handle_kernal_load once load_file has answered: the data past the two bytes
\* of the load address is written through the bus
KernalLoaded(m, file_data) ==
    IF file_data # <<>>
    THEN [WriteData(m, file_data[1] + file_data[2] * 256,
                    Slice(file_data, 2, Len(file_data)))
            EXCEPT !.cpu.c = FALSE, !.cpu.pc = @ + 2]
    ELSE [m EXCEPT !.cpu.c = TRUE, !.cpu.pc = @ + 2]

\* CPU.handle_kernal_load: declined while no disk image is attached
handle_kernal_load(m) ==
    IF m.bus.drive.disk_image = << >> \/ m.bus.drive.disk_image[1].size = 0
    THEN [handled |-> FALSE, m |-> m]
    ELSE [handled |-> TRUE,
          m |-> KernalLoaded(m, load_file(m.bus.drive, TrapFileName(m)).data)]

\* handle_kernal_save once save_file has answered; when save_file raised, the
\* exception leaves the CPU as it was
KernalSaved(m, answer) ==
    IF answer.raised THEN [m EXCEPT !.bus.drive = answer.drive]
    ELSE [m EXCEPT !.bus.drive = answer.drive, !.cpu.c = ~answer.saved,
                   !.cpu.pc = @ + 2]

\* CPU.handle_kernal_save: the memory from the address at $2B/$2C up to the one
\* at $2D/$2E, behind the two bytes of the start address
handle_kernal_save(m) ==
    LET start_addr == Word(m, 43, 44)
        end_addr == Word(m, 45, 46)
    IN  IF m.bus.drive.disk_image = << >> \/ m.bus.drive.disk_image[1].size = 0
        THEN [handled |-> FALSE, m |-> m]
        ELSE [handled |-> TRUE,
              m |-> KernalSaved(m, save_file(m.bus.drive, TrapFileName(m),
                                   <<start_addr % 256, start_addr \div 256>>
                                   \o ReadRange(m, start_addr,
                                                IF end_addr > start_addr
                                                THEN end_addr - start_addr
                                                ELSE 0)))]

\* the trap of CPU.tick at $FFD5 (LOAD) and $FFD8 (SAVE)
KernalTrap(m) ==
    IF m.cpu.pc = 65493 THEN handle_kernal_load(m)
    ELSE IF m.cpu.pc = 65496 THEN handle_kernal_save(m)
    ELSE [handled |-> FALSE, m |-> m]

----------------------------------------------------------------------------
(* The instruction handlers (src/pyc64/cpu.py), each on the machine m.     *)

\* the operand of a read instruction: its value and the machine after the read
Operand(m, mode) == BusRead(m, get_location_by_mode(m, mode))

LDA(m, mode) ==
    LET Load(r) == [r.m EXCEPT !.cpu = set_nz([@ EXCEPT !.a = r.val], r.val)]
    IN  Load(Operand(m, mode))

LDX(m, mode) ==
    LET Load(r) == [r.m EXCEPT !.cpu = set_nz([@ EXCEPT !.x = r.val], r.val)]
    IN  Load(Operand(m, mode))

LDY(m, mode) ==
    LET Load(r) == [r.m EXCEPT !.cpu = set_nz([@ EXCEPT !.y = r.val], r.val)]
    IN  Load(Operand(m, mode))

LAX(m, mode) ==
    LET Load(r) ==
            [r.m EXCEPT !.cpu = set_nz([@ EXCEPT !.a = r.val, !.x = r.val], r.val)]
    IN  Load(Operand(m, mode))

STA(m, mode) == BusWriteOp(m, get_location_by_mode(m, mode), m.cpu.a)

STX(m, mode) == BusWriteOp(m, get_location_by_mode(m, mode), m.cpu.x)

STY(m, mode) == BusWriteOp(m, get_location_by_mode(m, mode), m.cpu.y)

SAX(m, mode) ==
    BusWriteOp(m, get_location_by_mode(m, mode), BitAnd(m.cpu.a, m.cpu.x))

\* read, modify by delta, wrap, write back, set N and Z
IncDecMemory(m, mode, delta) ==
    LET Store(r) ==
            [BusWriteOp(r.m, r.addr, wrap(r.val + delta))
                EXCEPT !.cpu = set_nz(@, wrap(r.val + delta))]
    IN  Store(Operand(m, mode))

INC(m, mode) == IncDecMemory(m, mode, 1)

DEC(m, mode) == IncDecMemory(m, mode, -1)

INX(m, mode) == [m EXCEPT !.cpu = set_nz([@ EXCEPT !.x = wrap(@ + 1)], wrap(m.cpu.x + 1))]

INY(m, mode) == [m EXCEPT !.cpu = set_nz([@ EXCEPT !.y = wrap(@ + 1)], wrap(m.cpu.y + 1))]

DEX(m, mode) == [m EXCEPT !.cpu = set_nz([@ EXCEPT !.x = wrap(@ - 1)], wrap(m.cpu.x - 1))]

DEY(m, mode) == [m EXCEPT !.cpu = set_nz([@ EXCEPT !.y = wrap(@ - 1)], wrap(m.cpu.y - 1))]

TAX(m, mode) == [m EXCEPT !.cpu = set_nz([@ EXCEPT !.x = m.cpu.a], m.cpu.a)]

TXA(m, mode) == [m EXCEPT !.cpu = set_nz([@ EXCEPT !.a = m.cpu.x], m.cpu.x)]

TAY(m, mode) == [m EXCEPT !.cpu = set_nz([@ EXCEPT !.y = m.cpu.a], m.cpu.a)]

TYA(m, mode) == [m EXCEPT !.cpu = set_nz([@ EXCEPT !.a = m.cpu.y], m.cpu.y)]

TXS(m, mode) == [m EXCEPT !.cpu.sp = m.cpu.x]

TSX(m, mode) == [m EXCEPT !.cpu = set_nz([@ EXCEPT !.x = m.cpu.sp], m.cpu.sp)]

CLC(m, mode) == [m EXCEPT !.cpu.c = FALSE]

SEC(m, mode) == [m EXCEPT !.cpu.c = TRUE]

CLI(m, mode) == [m EXCEPT !.cpu.i = FALSE]

SEI(m, mode) == [m EXCEPT !.cpu.i = TRUE]

CLV(m, mode) == [m EXCEPT !.cpu.v = FALSE]

CLD(m, mode) == [m EXCEPT !.cpu.d = FALSE]

SED(m, mode) == [m EXCEPT !.cpu.d = TRUE]

NOP(m, mode) == m

\* JMP leaves the PC short of the target by the increment the tick adds afterwards
JMP(m, mode) == [m EXCEPT !.cpu.pc = get_location_by_mode(m, mode) - Increment(mode)]

\* CPU._compare (CMP is the same code with register a)
compare(m, mode, register_value) ==
    LET Against(r) ==
            [r.m EXCEPT !.cpu = set_nz([@ EXCEPT !.c = (register_value >= r.val)],
                                       register_value - r.val)]
    IN  Against(Operand(m, mode))

CMP(m, mode) == compare(m, mode, m.cpu.a)

CPX(m, mode) == compare(m, mode, m.cpu.x)

CPY(m, mode) == compare(m, mode, m.cpu.y)

BIT(m, mode) ==
    LET Test(r) ==
            [r.m EXCEPT !.cpu.z = (BitAnd(m.cpu.a, r.val) = 0),
                        !.cpu.n = (Bit(r.val, 7) = 1),
                        !.cpu.v = (Bit(r.val, 6) = 1)]
    IN  Test(Operand(m, mode))

\* CPU._branch: the offset is added to the address of the branch opcode, and the
\* page test compares that address with the target
branch(m, condition) ==
    LET pc == m.cpu.pc
        Go(m1, new_pc) ==
            [m1 EXCEPT !.cpu.cycles_remaining =
                           @ + 1 + (IF Page(pc) % 256 # Page(new_pc) % 256
                                    THEN 1 ELSE 0),
                       !.cpu.pc = new_pc]
        Take(r) == Go(r.m, pc + (IF r.val >= 128 THEN r.val - 256 ELSE r.val))
    IN  IF ~condition THEN m
        ELSE Take(BusRead(m, get_location_by_mode(m, "RELATIVE")))

BMI(m, mode) == branch(m, m.cpu.n)

BPL(m, mode) == branch(m, ~m.cpu.n)

BVC(m, mode) == branch(m, m.cpu.v)

BVS(m, mode) == branch(m, ~m.cpu.v)

BCC(m, mode) == branch(m, ~m.cpu.c)

BCS(m, mode) == branch(m, m.cpu.c)

BNE(m, mode) == branch(m, ~m.cpu.z)

BEQ(m, mode) == branch(m, m.cpu.z)

JSR(m, mode) ==
    LET loc == m.cpu.pc + 2
        Call(m4) ==
            [m4 EXCEPT !.cpu.pc = get_location_by_mode(m4, mode) - Increment(mode)]
    IN  Call(PushByte(PushByte(m, (loc \div 256) % 256), loc % 256))

\* RTS pulls the two bytes through PLA (which sets N and Z) and restores A
RTS(m, mode) ==
    LET Return(m1, m2) ==
            [m2 EXCEPT !.cpu.a = m.cpu.a, !.cpu.pc = m2.cpu.a * 256 + m1.cpu.a]
        Second(m1) == Return(m1, PLA(m1, mode))
    IN  Second(PLA(m, mode))

RTI(m, mode) == RTS(PLP(m, mode), mode)

\* BRK; a BRK at $FFD4 tries the LOAD trap first and, when that is handled,
\* skips two more bytes
BRK(m, mode) ==
    IF m.cpu.pc + 1 = 65493 /\ handle_kernal_load(m).handled
    THEN [handle_kernal_load(m).m EXCEPT !.cpu.pc = @ + 2]
    ELSE [handle_irq([m EXCEPT !.cpu.pc = @ + 1, !.cpu.i = TRUE])
            EXCEPT !.cpu.b = TRUE]

\* bit 7 of a Python int that may be negative or above 255
Bit7(value) == Bit(value % 256, 7)

\* ADC that adds in binary whatever the D flag says
ADCNoDecimal(m, mode) ==
    LET Add(r) ==
            LET a == m.cpu.a
                value == r.val
                carry == IF m.cpu.c THEN 1 ELSE 0
                low0 == (a % 16) + (value % 16) + carry
                low == IF low0 > 9 THEN low0 + 6 ELSE low0
                high0 == (a \div 16) + (value \div 16)
                high1 == IF low > 15 THEN high0 + 1 ELSE high0
                high == IF high1 > 9 THEN high1 + 6 ELSE high1
                bcd == (high % 16) * 16 + (low % 16)
                result == a + value + carry
                overflow == Bit7(a) = Bit7(value) /\ Bit7(a) # Bit7(result)
            IN  IF FALSE
                THEN [r.m EXCEPT !.cpu = set_nz([@ EXCEPT !.c = (high > 15),
                                                           !.a = bcd], bcd)]
                ELSE [r.m EXCEPT !.cpu = set_nz([@ EXCEPT !.v = overflow,
                                                           !.c = (result > 255),
                                                           !.a = wrap(result)],
                                                wrap(result))]
    IN  Add(Operand(m, mode))

ADC(m, mode) ==
    LET Add(r) ==
            LET a == m.cpu.a
                value == r.val
                carry == IF m.cpu.c THEN 1 ELSE 0
                low0 == (a % 16) + (value % 16) + carry
                low == IF low0 > 9 THEN low0 + 6 ELSE low0
                high0 == (a \div 16) + (value \div 16)
                high1 == IF low > 15 THEN high0 + 1 ELSE high0
                high == IF high1 > 9 THEN high1 + 6 ELSE high1
                bcd == (high % 16) * 16 + (low % 16)
                result == a + value + carry
                overflow == Bit7(a) = Bit7(value) /\ Bit7(a) # Bit7(result)
            IN  IF m.cpu.d
                THEN [r.m EXCEPT !.cpu = set_nz([@ EXCEPT !.c = (high > 15),
                                                           !.a = bcd], bcd)]
                ELSE [r.m EXCEPT !.cpu = set_nz([@ EXCEPT !.v = overflow,
                                                           !.c = (result > 255),
                                                           !.a = wrap(result)],
                                                wrap(result))]
    IN  Add(Operand(m, mode))

\* SBC with the overflow test of ADC (operands of equal sign)
SBCOverflowAsADC(m, mode) ==
    LET Subtract(r) ==
            LET a == m.cpu.a
                value == r.val
                borrow == IF m.cpu.c THEN 0 ELSE 1
                low0 == (a % 16) - (value % 16) - borrow
                low == IF low0 < 0 THEN low0 - 6 ELSE low0
                high0 == (a \div 16) - (value \div 16)
                high1 == IF low < 0 THEN high0 - 1 ELSE high0
                high == IF high1 < 0 THEN high1 - 6 ELSE high1
                bcd == (high % 16) * 16 + (low % 16)
                result == a - value - borrow
                overflow == Bit7(a) = Bit7(value) /\ Bit7(a) # Bit7(result)
            IN  IF m.cpu.d
                THEN [r.m EXCEPT !.cpu = set_nz([@ EXCEPT !.c = (high >= 0),
                                                           !.a = bcd], bcd)]
                ELSE [r.m EXCEPT !.cpu = set_nz([@ EXCEPT !.v = overflow,
                                                           !.c = (result >= 0),
                                                           !.a = wrap(result)],
                                                wrap(result))]
    IN  Subtract(Operand(m, mode))

SBC(m, mode) ==
    LET Subtract(r) ==
            LET a == m.cpu.a
                value == r.val
                borrow == IF m.cpu.c THEN 0 ELSE 1
                low0 == (a % 16) - (value % 16) - borrow
                low == IF low0 < 0 THEN low0 - 6 ELSE low0
                high0 == (a \div 16) - (value \div 16)
                high1 == IF low < 0 THEN high0 - 1 ELSE high0
                high == IF high1 < 0 THEN high1 - 6 ELSE high1
                bcd == (high % 16) * 16 + (low % 16)
                result == a - value - borrow
                overflow == Bit7(a) # Bit7(value) /\ Bit7(a) # Bit7(result)
            IN  IF m.cpu.d
                THEN [r.m EXCEPT !.cpu = set_nz([@ EXCEPT !.c = (high >= 0),
                                                           !.a = bcd], bcd)]
                ELSE [r.m EXCEPT !.cpu = set_nz([@ EXCEPT !.v = overflow,
                                                           !.c = (result >= 0),
                                                           !.a = wrap(result)],
                                                wrap(result))]
    IN  Subtract(Operand(m, mode))

\* AND, ORA and EOR: A becomes the combination of A and the operand
Logic(m, mode, f) ==
    LET Combine(m1, value) == [m1 EXCEPT !.cpu = set_nz([@ EXCEPT !.a = value], value)]
        With(r) ==
            Combine(r.m, CASE f = "AND" -> BitAnd(m.cpu.a, r.val)
                           [] f = "ORA" -> BitOr(m.cpu.a, r.val)
                           [] f = "EOR" -> BitXor(m.cpu.a, r.val))
    IN  With(Operand(m, mode))

AND(m, mode) == Logic(m, mode, "AND")

ORA(m, mode) == Logic(m, mode, "ORA")

EOR(m, mode) == Logic(m, mode, "EOR")

\* the value ASL, LSR, ROL and ROR store, from the operand and the old carry
ShiftValue(f, value, c) ==
    CASE f = "ASL" -> wrap(value * 2)
      [] f = "LSR" -> wrap(value \div 2)
      [] f = "ROL" -> BitOr(wrap(value * 2), IF c THEN 1 ELSE 0)
      [] f = "ROR" -> BitOr(wrap(value \div 2), IF c THEN 128 ELSE 0)

\* the carry they leave: ASL and LSR set it when the bit shifted out is 1 and
\* never clear it, ROL and ROR copy the bit shifted out
ShiftCarry(f, value, c) ==
    CASE f = "ASL" -> c \/ Bit(value, 7) = 1
      [] f = "LSR" -> c \/ Bit(value, 0) = 1
      [] f = "ROL" -> Bit(value, 7) = 1
      [] f = "ROR" -> Bit(value, 0) = 1

\* the shape ASL, LSR, ROL and ROR share: the operand is A or a memory cell
ShiftOp(m, mode, f) ==
    LET Value(r) == ShiftValue(f, r.val, m.cpu.c)
        Store(r) ==
            [(IF mode = "ACCUMULATOR" THEN [r.m EXCEPT !.cpu.a = Value(r)]
              ELSE BusWriteOp(r.m, r.addr, Value(r)))
                EXCEPT !.cpu = set_nz([@ EXCEPT !.c = ShiftCarry(f, r.val, m.cpu.c)],
                                      Value(r))]
    IN  Store(IF mode = "ACCUMULATOR" THEN [addr |-> 0, val |-> m.cpu.a, m |-> m]
              ELSE Operand(m, mode))

ASL(m, mode) == ShiftOp(m, mode, "ASL")

LSR(m, mode) == ShiftOp(m, mode, "LSR")

ROL(m, mode) == ShiftOp(m, mode, "ROL")

ROR(m, mode) == ShiftOp(m, mode, "ROR")

\* the shape SLO, RLA and DCP share: the memory cell is rewritten, then the
\* flags (and A, for SLO and RLA) follow from the stored value
ReadModifyWrite(m, mode, f) ==
    LET Value(r) ==
            CASE f = "SLO" -> (r.val * 2) % 256
              [] f = "RLA" -> BitOr(r.val * 2, IF m.cpu.c THEN 1 ELSE 0) % 256
              [] f = "DCP" -> (r.val - 1) % 256
        Flags(p, old, value) ==
            CASE f = "SLO" ->
                   set_nz([p EXCEPT !.c = (Bit(old, 7) = 1),
                                    !.a = BitOr(m.cpu.a, value)],
                          BitOr(m.cpu.a, value))
              [] f = "RLA" ->
                   set_nz([p EXCEPT !.c = (Bit(old, 7) = 1),
                                    !.a = BitAnd(m.cpu.a, value)],
                          BitAnd(m.cpu.a, value))
              [] f = "DCP" ->
                   set_nz([p EXCEPT !.c = (m.cpu.a >= value)], m.cpu.a - value)
        Store(r) ==
            [BusWriteOp(r.m, r.addr, Value(r))
                EXCEPT !.cpu = Flags(@, r.val, Value(r))]
    IN  Store(Operand(m, mode))

SLO(m, mode) == ReadModifyWrite(m, mode, "SLO")

RLA(m, mode) == ReadModifyWrite(m, mode, "RLA")

DCP(m, mode) == ReadModifyWrite(m, mode, "DCP")

\* the handler named f applied with mode
Handler(m, f, mode) ==
    CASE f = "LDA" -> LDA(m, mode) [] f = "LDX" -> LDX(m, mode)
      [] f = "LDY" -> LDY(m, mode) [] f = "LAX" -> LAX(m, mode)
      [] f = "STA" -> STA(m, mode) [] f = "STX" -> STX(m, mode)
      [] f = "STY" -> STY(m, mode) [] f = "SAX" -> SAX(m, mode)
      [] f = "INC" -> INC(m, mode) [] f = "DEC" -> DEC(m, mode)
      [] f = "INX" -> INX(m, mode) [] f = "INY" -> INY(m, mode)
      [] f = "DEX" -> DEX(m, mode) [] f = "DEY" -> DEY(m, mode)
      [] f = "TAX" -> TAX(m, mode) [] f = "TXA" -> TXA(m, mode)
      [] f = "TAY" -> TAY(m, mode) [] f = "TYA" -> TYA(m, mode)
      [] f = "TXS" -> TXS(m, mode) [] f = "TSX" -> TSX(m, mode)
      [] f = "CLC" -> CLC(m, mode) [] f = "SEC" -> SEC(m, mode)
      [] f = "CLI" -> CLI(m, mode) [] f = "SEI" -> SEI(m, mode)
      [] f = "CLV" -> CLV(m, mode) [] f = "CLD" -> CLD(m, mode)
      [] f = "SED" -> SED(m, mode) [] f = "NOP" -> NOP(m, mode)
      [] f = "JMP" -> JMP(m, mode) [] f = "JSR" -> JSR(m, mode)
      [] f = "RTS" -> RTS(m, mode) [] f = "RTI" -> RTI(m, mode)
      [] f = "BRK" -> BRK(m, mode) [] f = "BIT" -> BIT(m, mode)
      [] f = "CMP" -> CMP(m, mode) [] f = "CPX" -> CPX(m, mode)
      [] f = "CPY" -> CPY(m, mode)
      [] f = "BMI" -> BMI(m, mode) [] f = "BPL" -> BPL(m, mode)
      [] f = "BVC" -> BVC(m, mode) [] f = "BVS" -> BVS(m, mode)
      [] f = "BCC" -> BCC(m, mode) [] f = "BCS" -> BCS(m, mode)
      [] f = "BNE" -> BNE(m, mode) [] f = "BEQ" -> BEQ(m, mode)
      [] f = "PHA" -> PHA(m, mode) [] f = "PLA" -> PLA(m, mode)
      [] f = "PHP" -> PHP(m, mode) [] f = "PLP" -> PLP(m, mode)
      [] f = "ADC" -> ADC(m, mode) [] f = "SBC" -> SBC(m, mode)
      [] f = "AND" -> AND(m, mode) [] f = "ORA" -> ORA(m, mode)
      [] f = "EOR" -> EOR(m, mode)
      [] f = "ASL" -> ASL(m, mode) [] f = "LSR" -> LSR(m, mode)
      [] f = "ROL" -> ROL(m, mode) [] f = "ROR" -> ROR(m, mode)
      [] f = "SLO" -> SLO(m, mode) [] f = "RLA" -> RLA(m, mode)
      [] f = "DCP" -> DCP(m, mode)
      [] OTHER -> m

\* f(m): the handler self.commands[op]["f"] applied with the opcode's mode
Execute(m, op) == Handler(m, Mnemonic(op), AddrMode(op))

----------------------------------------------------------------------------
(* CPU.tick (src/pyc64/cpu.py).  The tick is a sequence of steps run in the *)
(* order of TickOrder.  Beside the machine m, the tick record carries what  *)
(* the tick did (log, chk, serviced, pc_int, opcode, cost, stolen); these   *)
(* fields are read by the properties only.                                  *)

\* a tick that looks at the IRQ latch before the NMI latch
TickOrderIrqFirst == <<"vic", "badline", "cia1", "cia2", "irq", "nmi", "trap", "instr">>

\* the order of the statements of CPU.tick
TickOrder == <<"vic", "badline", "cia1", "cia2", "nmi", "irq", "trap", "instr">>

TickStart(m) ==
    [m |-> m, done |-> FALSE, log |-> <<>>,
     chk |-> [seen |-> FALSE, nmi |-> FALSE, irq |-> FALSE, i |-> FALSE, vector |-> 0],
     serviced |-> <<>>, pc_int |-> -1, opcode |-> -1, cost |-> 0, stolen |-> 0]

\* the pending latches and the I flag as they stand when the interrupt checks begin
NoteCheck(t) ==
    IF t.chk.seen THEN t
    ELSE [t EXCEPT !.chk = [seen |-> TRUE, nmi |-> t.m.cpu.nmi_pending,
                            irq |-> t.m.cpu.irq_pending, i |-> t.m.cpu.i,
                            vector |-> Word(t.m, 65530, 65531)]]

\* the branch of the tick taken for a known opcode: cycles_remaining is set, the
\* handler runs, the PC moves on and total_cycles grows by cycles
RunCommand(t, m2, command, mode, cycles) ==
    LET Executed(m3) ==
            [t EXCEPT !.m = [m3 EXCEPT !.cpu.pc = @ + Increment(mode),
                                       !.cpu.total_cycles = @ + cycles],
                      !.opcode = command,
                      !.cost = m3.cpu.cycles_remaining]
    IN  Executed(Execute([m2 EXCEPT !.cpu.cycles_remaining = cycles], command))

\* Dispatch that steps over a byte that is in no table
DispatchSkipsUnknown(t, r) ==
    IF r.val \in Opcodes
    THEN RunCommand(t, r.m, r.val, AddrMode(r.val),
                    CycleCount(r.val)
                    + (IF AddrMode(r.val) \in {"ABSOLUTEX", "ABSOLUTEY", "INDIRECTY"}
                          /\ page_boundary_crossed(r.m, AddrMode(r.val))
                       THEN 1 ELSE 0))
    ELSE [t EXCEPT !.m = [r.m EXCEPT !.cpu.pc = @ + 1], !.opcode = r.val]

\* the fetched opcode r.val is looked up in self.commands and self.cycles
Dispatch(t, r) ==
    IF r.val \in Opcodes
    THEN RunCommand(t, r.m, r.val, AddrMode(r.val),
                    CycleCount(r.val)
                    + (IF AddrMode(r.val) \in {"ABSOLUTEX", "ABSOLUTEY", "INDIRECTY"}
                          /\ page_boundary_crossed(r.m, AddrMode(r.val))
                       THEN 1 ELSE 0))
    ELSE [t EXCEPT !.m = r.m, !.opcode = r.val]

\* after the first read of the opcode: the cycles of the instruction in flight
\* are waited out, one per tick
AwaitCycles(t, m1) ==
    IF m1.cpu.cycles_remaining > 0
    THEN [t EXCEPT !.m = [m1 EXCEPT !.cpu.cycles_remaining = @ - 1]]
    ELSE Dispatch(t, BusRead(m1, m1.cpu.pc))

\* the last part of the tick: wait out the cycles of the instruction in flight,
\* or fetch and execute the next one
FetchExecute(t) == AwaitCycles(t, MemReadEff(t.m, t.m.cpu.pc))

TickStep(t, step) ==
    LET t1 == [t EXCEPT !.log = Append(@, step)]
    IN  IF t.done THEN t
        ELSE CASE step = "vic" -> [t1 EXCEPT !.m = VicTick(t.m)]
               [] step = "badline" ->
                    IF is_badline(t.m.vic)
                    THEN [t1 EXCEPT !.m.cpu.cycles_remaining = @ - get_cycles_stolen,
                                    !.stolen = get_cycles_stolen]
                    ELSE t1
               [] step \in {"cia1", "cia2"} -> [t1 EXCEPT !.m = CiaTick(t.m, step)]
               [] step = "nmi" ->
                    [NoteCheck(t1) EXCEPT
                        !.m = IF t.m.cpu.nmi_pending THEN handle_nmi(t.m) ELSE @,
                        !.serviced = IF t.m.cpu.nmi_pending
                                     THEN Append(@, "nmi") ELSE @]
               [] step = "irq" ->
                    [NoteCheck(t1) EXCEPT
                        !.m = IF t.m.cpu.irq_pending /\ ~t.m.cpu.i
                              THEN handle_irq(t.m) ELSE @,
                        !.serviced = IF t.m.cpu.irq_pending /\ ~t.m.cpu.i
                                     THEN Append(@, "irq") ELSE @]
               [] step = "trap" ->
                    IF KernalTrap(t.m).handled
                    THEN [t1 EXCEPT !.m = KernalTrap(t.m).m, !.done = TRUE,
                                    !.pc_int = t.m.cpu.pc]
                    ELSE [t1 EXCEPT !.pc_int = t.m.cpu.pc]
               [] step = "instr" -> FetchExecute(t1)
               [] OTHER -> t1

\* the steps first .. final of TickOrder in turn, by halves; the test of the
\* opcode has the first half done before the second is begun
RECURSIVE RunTick(_, _, _)
RunTick(t, first, final) ==
    LET half == (first + final) \div 2
        Onward(t1) == IF t1.opcode >= -1 THEN RunTick(t1, half + 1, final) ELSE t1
    IN  IF first = final THEN TickStep(t, TickOrder[first])
        ELSE Onward(RunTick(t, first, half))

\* CPU.tick
Tick(m) == RunTick(TickStart(m), 1, Len(TickOrder))

----------------------------------------------------------------------------
(* Save states (src/pyc64/cpu.py _save_state and _restore_state, with the  *)
(* chips' save_state and restore_state).  Every saved value is an int, a    *)
(* bool, a string or a list of those, which json.dump and json.load hand    *)
(* back unchanged, so the file is kept as the dictionary written to it.     *)

\* VICII.save_state
VicSaveState(v) ==
    [registers |-> v.registers, cycle |-> v.cycle, raster_line |-> v.raster_line,
     sprite_sprite_collision |-> v.sprite_sprite_collision,
     sprite_data_collision |-> v.sprite_data_collision,
     sprites |-> v.sprites]

\* VICII.restore_state
VicRestoreState(v, state) ==
    [v EXCEPT !.registers = state.registers, !.cycle = state.cycle,
              !.raster_line = state.raster_line,
              !.sprite_sprite_collision = state.sprite_sprite_collision,
              !.sprite_data_collision = state.sprite_data_collision,
              !.sprites = state.sprites]

\* the CPU keys _save_state writes
SavedCpuKeys ==
    {"a", "x", "y", "pc", "sp", "n", "v", "b", "d", "i", "z", "c", "total_cycles"}

\* CPU._save_state: the dictionary dumped to the file
save_state(m) ==
    [cpu |-> [k \in SavedCpuKeys |-> m.cpu[k]],
     ram |-> m.mem.ram,
     vic |-> VicSaveState(m.vic),
     sid |-> m.sid,
     cia1 |-> m.cia.cia1,
     cia2 |-> m.cia.cia2]

\* the CPU keys in the order _restore_state reads them
CpuRestoreOrder == <<"a", "x", "y", "pc", "sp", "n", "v", "b", "d", "i", "z", "c">>

\* the chips' keys in the order _restore_state reads them
ChipRestoreOrder == <<"vic", "sid", "cia1", "cia2">>

\* whether _restore_state meets a KeyError in the file
RestoreFails(state) ==
    \/ "cpu" \notin DOMAIN state
    \/ \E j \in 1..Len(CpuRestoreOrder) : CpuRestoreOrder[j] \notin DOMAIN state.cpu
    \/ \E j \in 1..Len(ChipRestoreOrder) : ChipRestoreOrder[j] \notin DOMAIN state

\* CPU._restore_state from a file in the layout _save_state writes: the file
\* has no key ram_changes and no key dirty_flags, so the defaults {} and [] are
\* used.  The assignments run in the order of the code up to the first key the
\* file lacks; the KeyError is caught there and what was assigned stays.
restore_state(m, state) ==
    LET cpu_state == state.cpu
        cpu_missing == {j \in 1..Len(CpuRestoreOrder) :
                          CpuRestoreOrder[j] \notin DOMAIN cpu_state}
        cpu_stop == IF cpu_missing = {} THEN Len(CpuRestoreOrder) + 1
                    ELSE Least(cpu_missing)
        chip_missing == {j \in 1..Len(ChipRestoreOrder) :
                           ChipRestoreOrder[j] \notin DOMAIN state}
        chip_stop == IF chip_missing = {} THEN Len(ChipRestoreOrder) + 1
                     ELSE Least(chip_missing)
        cpu1 == [k \in DOMAIN m.cpu |->
                   IF \E j \in 1..(cpu_stop - 1) : CpuRestoreOrder[j] = k
                   THEN cpu_state[k]
                   ELSE IF k = "total_cycles" /\ cpu_missing = {}
                   THEN (IF k \in DOMAIN cpu_state THEN cpu_state[k] ELSE 0)
                   ELSE m.cpu[k]]
        m1 == [m EXCEPT !.cpu = cpu1]
        m2 == [m1 EXCEPT !.bus.memory_dirty_flags = {}]
        m3 == IF chip_stop > 1
              THEN [m2 EXCEPT !.vic = VicRestoreState(m.vic, state.vic)] ELSE m2
        m4 == IF chip_stop > 2 THEN [m3 EXCEPT !.sid = state.sid] ELSE m3
        m5 == IF chip_stop > 3 THEN [m4 EXCEPT !.cia.cia1 = state.cia1] ELSE m4
        m6 == IF chip_stop > 4 THEN [m5 EXCEPT !.cia.cia2 = state.cia2] ELSE m5
    IN  IF "cpu" \notin DOMAIN state THEN m
        ELSE IF cpu_missing # {} THEN m1
        ELSE m6

----------------------------------------------------------------------------
(* The machine after construction, and the commit of an operation's result. *)

\* Cartridge.__init__
Cartridge == [type |-> 0, exrom |-> FALSE, game |-> FALSE, rom_chips |-> Zeros]

\* Bus.__init__; the cartridge slot is a sequence, empty for None
BusInit == [memory_dirty_flags |-> {}, cartridge |-> << >>, drive |-> DriveInit]

\* Bus.load_crt of src/pyc64/bus.py on a file given by what its bytes say.  A
\* missing file (FileNotFoundError) or a wrong magic string (ValueError) is
\* caught and leaves no cartridge.  Past the magic check Cartridge.load_from_crt
\* calls struct.unpack, and the module does not import struct: the NameError is
\* not among the exceptions caught, so the call ends there with the cartridge
\* as Cartridge() made it, its lines false and no chip.
load_crt(m, file) ==
    [m EXCEPT !.bus.cartridge =
        IF ~file.found \/ file.magic # "C64 " THEN << >> ELSE <<Cartridge>>]

\* Bus.__init__ creating the two CIAs
CiaPairInit == [cia1 |-> CiaInit("CIA1", TRUE), cia2 |-> CiaInit("CIA2", FALSE)]

\* the machine after CPU(None), Bus(cpu) and the ROM images loaded by load_rom
PowerOn(basic_image, kernal_image, char_image) ==
    [cpu |-> CpuInit, mem |-> MemInit(basic_image, kernal_image, char_image),
     bus |-> BusInit, vic |-> VicInit(char_image), sid |-> SidInit,
     cia |-> CiaPairInit]

\* the variables hold machine m
Holds(m) ==
    /\ cpu = m.cpu /\ mem = m.mem /\ bus = m.bus
    /\ vic = m.vic /\ sid = m.sid /\ cia = m.cia

\* the next state holds machine m
Becomes(m) ==
    /\ cpu' = m.cpu /\ mem' = m.mem /\ bus' = m.bus
    /\ vic' = m.vic /\ sid' = m.sid /\ cia' = m.cia

----------------------------------------------------------------------------
(* SpecCia: the CIAs driven through the bus at $DC00 and $DD00 and clocked  *)
(* as CPU.tick clocks them (cia1.tick, then cia2.tick).                     *)

MaxCiaWrites == 4
MaxCiaTicks == 5

CiaBase(which) == IF which = "cia1" THEN 56320 ELSE 56576

\* <<offset, data>>: timer A latch, timer B latch, the interrupt mask for timer A
\* and timer B, control register A (start, start one-shot) and B (start)
CiaWritePairs ==
    {<<4, 2>>, <<5, 0>>, <<6, 1>>, <<13, 129>>, <<13, 130>>, <<14, 1>>, <<14, 9>>,
     <<15, 1>>}

CiaReadOffsets == {4, 13}

InitCia ==
    /\ Holds(PowerOn(Zeros, Zeros, Zeros))
    /\ snapshot = "none"
    /\ last = [op |-> "init"]
    /\ \E which \in {"cia1", "cia2"} : hist = [chip |-> which, writes |-> 0, ticks |-> 0]

CiaWriteOp ==
    /\ hist.writes < MaxCiaWrites
    /\ \E pair \in CiaWritePairs :
         /\ Becomes(BusWriteOp(Machine, CiaBase(hist.chip) + pair[1], pair[2]))
         /\ last' = [op |-> "write", chip |-> hist.chip, offset |-> pair[1],
                     data |-> pair[2]]
    /\ hist' = [hist EXCEPT !.writes = @ + 1]
    /\ UNCHANGED snapshot

CiaReadOp ==
    /\ \E offset \in CiaReadOffsets :
         LET r == BusRead(Machine, CiaBase(hist.chip) + offset)
         IN  /\ Becomes(r.m)
             /\ last' = [op |-> "read", chip |-> hist.chip, offset |-> offset,
                         val |-> r.val]
    /\ UNCHANGED <<snapshot, hist>>

CiaTickOp ==
    /\ hist.ticks < MaxCiaTicks
    /\ Becomes(CiaTick(CiaTick(Machine, "cia1"), "cia2"))
    /\ last' = [op |-> "tick"]
    /\ hist' = [hist EXCEPT !.ticks = @ + 1]
    /\ UNCHANGED snapshot

NextCia == CiaWriteOp \/ CiaReadOp \/ CiaTickOp

SpecCia == InitCia /\ [][NextCia]_vars

\* timer A of chip c underflows at the next tick
TimerAUnderflows(c) == c.timer_a_started /\ c.timer_a_counter - 1 < 0

\* timer B counts as started when bit 0 of control register B, as written, is set
TimerBStarted(c) == Bit(Get(c.registers, 15), 0) = 1

\* C6: a read of the interrupt control register ($DC0D / $DD0D) returns the
\* interrupt flags as they stood and leaves them zero, and the flags of a chip
\* leave zero only by a tick, so further reads return 0 until a tick sets a flag.
C6_IcrReadReturnsAndClears ==
    [][/\ (last'.op = "read" /\ last'.offset = 13)
            => /\ last'.val = cia[last'.chip].ifr
               /\ cia'[last'.chip].ifr = 0
       /\ \A which \in {"cia1", "cia2"} :
            (cia[which].ifr = 0 /\ cia'[which].ifr # 0) => last'.op = "tick"]_vars

\* C6 witness: an ICR read that returned raised flags and left none
C6_Witness ==
    /\ last.op = "read" /\ last.offset = 13
    /\ last.val # 0
    /\ cia[last.chip].ifr = 0

\* C9: an underflow of timer A with its mask bit set raises the IRQ latch when
\* the chip is CIA1 and the NMI latch when it is CIA2; CIA2 never sets irq_pending.
C9_Cia2RaisesNmi ==
    [][last'.op = "tick"
         => LET under1 == TimerAUnderflows(cia.cia1) /\ Bit(cia.cia1.icr, 0) = 1
                under2 == TimerAUnderflows(cia.cia2) /\ Bit(cia.cia2.icr, 0) = 1
            IN  /\ under1 => cpu'.irq_pending
                /\ under2 => cpu'.nmi_pending
                /\ ~under1 => cpu'.irq_pending = cpu.irq_pending]_vars

\* C9 witness: CIA2's timer A has underflowed with its mask bit set
C9_Witness ==
    /\ last.op = "tick" /\ hist.chip = "cia2"
    /\ Bit(cia.cia2.ifr, 7) = 1

\* C10: at a tick each started timer, A and B, is decremented by one or, when
\* that takes it below zero, underflows: timer A's underflow sets flag bit 0 and
\* timer B's sets flag bit 1, and bit 7 is set with it when the timer's mask bit
\* is set.
C10_BothTimersCount ==
    [][last'.op = "tick"
         => \A which \in {"cia1", "cia2"} :
              LET c == cia[which]
                  d == cia'[which]
              IN  /\ c.timer_a_started
                       => IF c.timer_a_counter - 1 < 0
                          THEN /\ Bit(d.ifr, 0) = 1
                               /\ Bit(c.icr, 0) = 1 => Bit(d.ifr, 7) = 1
                          ELSE d.timer_a_counter = c.timer_a_counter - 1
                  /\ TimerBStarted(c)
                       => IF c.timer_b_counter - 1 < 0
                          THEN /\ Bit(d.ifr, 1) = 1
                               /\ Bit(c.icr, 1) = 1 => Bit(d.ifr, 7) = 1
                          ELSE d.timer_b_counter = c.timer_b_counter - 1]_vars

\* C10 witness: a tick taken with timer B started
C10_Witness ==
    /\ last.op = "tick"
    /\ TimerBStarted(cia[hist.chip])

\* C11: when timer A underflows at a tick with control bit 3 set (one-shot) it
\* stops with counter = latch, and a stopped timer's counter is left alone by
\* every later tick and the timer starts again only by a write of the control
\* register with bit 0 set; with bit 3 clear (continuous) the counter is
\* reloaded from the latch, the timer stays started and goes on counting down
\* by one per tick, so that it underflows again.
C11_OneShotStopsContinuousReloads ==
    [][\A which \in {"cia1", "cia2"} :
         LET c == cia[which]
             d == cia'[which]
         IN  /\ last'.op = "tick"
                  => /\ TimerAUnderflows(c)
                          => /\ d.timer_a_counter = c.timer_a_latch
                             /\ d.timer_a_started = (Bit(c.cra, 3) = 0)
                     /\ (c.timer_a_started /\ ~TimerAUnderflows(c))
                          => /\ d.timer_a_counter = c.timer_a_counter - 1
                             /\ d.timer_a_started
                     /\ ~c.timer_a_started
                          => /\ d.timer_a_counter = c.timer_a_counter
                             /\ ~d.timer_a_started
             /\ (~c.timer_a_started /\ d.timer_a_started)
                  => /\ last'.op = "write" /\ last'.chip = which
                     /\ last'.offset = 14 /\ Bit(last'.data, 0) = 1]_vars

\* C11 witness: a tick taken while timer A stood stopped by a one-shot
\* underflow (start bit still written, flag already read away), the counter
\* resting at the latch
C11_Witness ==
    /\ last.op = "tick"
    /\ ~cia[hist.chip].timer_a_started
    /\ Bit(cia[hist.chip].cra, 0) = 1 /\ Bit(cia[hist.chip].cra, 3) = 1
    /\ cia[hist.chip].ifr = 0
    /\ cia[hist.chip].timer_a_latch = 2
    /\ cia[hist.chip].timer_a_counter = cia[hist.chip].timer_a_latch

\* C11 witness of the continuous case: a second underflow of a timer that was
\* reloaded with latch 2 by its first one
C11_WitnessContinuous ==
    /\ last.op = "tick" /\ hist.ticks = 4
    /\ cia[hist.chip].timer_a_started /\ Bit(cia[hist.chip].cra, 3) = 0
    /\ Bit(cia[hist.chip].ifr, 0) = 1
    /\ cia[hist.chip].timer_a_latch = 2 /\ cia[hist.chip].timer_a_counter = 2

\* C12: a write to the high byte of timer A's latch ($DC05 / $DD05) while the
\* timer is stopped (timer_a_started false: never started, stopped through
\* control bit 0, or stopped by a one-shot underflow) leaves counter = latch;
\* while the timer runs the counter is unchanged.
C12_LatchHighLoadsStoppedTimer ==
    [][(last'.op = "write" /\ last'.offset = 5)
         => LET c == cia[last'.chip]
                d == cia'[last'.chip]
            IN  /\ d.timer_a_latch = (c.timer_a_latch % 256) + last'.data * 256
                /\ IF c.timer_a_started
                   THEN d.timer_a_counter = c.timer_a_counter
                   ELSE d.timer_a_counter = d.timer_a_latch]_vars

\* C12 witness: a latch-high write to a timer that a one-shot underflow had
\* stopped, made after the latch low byte was changed
C12_Witness ==
    /\ last.op = "write" /\ last.offset = 5
    /\ ~cia[hist.chip].timer_a_started
    /\ Bit(cia[hist.chip].cra, 0) = 1 /\ Bit(cia[hist.chip].cra, 3) = 1
    /\ cia[hist.chip].timer_a_latch = 2

----------------------------------------------------------------------------
(* SpecVic: the VIC-II driven through the bus at $D000 and clocked by       *)
(* VICII.tick.  The power-on machine is clocked for 49 lines and 62 cycles,  *)
(* to one cycle before the first visible raster line; there one of a few    *)
(* register set-ups is written through the bus, and the writes, reads and   *)
(* ticks under study follow.                                                *)

MaxVicWrites == 2
MaxVicTicks == 66

\* the ticks from power-on that end one cycle before raster line 50
VicLeadTicks == 49 * SCREEN_WIDTH_CYCLES + 62

\* sprites 0..3 enabled at x = 24; 0 and 1 cover raster lines 30..50 and show
\* eight pixels of row 20 (the byte at $003C) on line 50; 2 and 3 start on line 51
SceneOverlap ==
    <<<<53269, 15>>, <<53248, 24>>, <<53250, 24>>, <<53252, 24>>, <<53254, 24>>,
      <<53249, 30>>, <<53251, 30>>, <<53253, 51>>, <<53255, 51>>, <<60, 255>>>>

\* bitmap mode, sprite 0 in colour 1 at x = 24 starting on raster line 50
SceneBitmap ==
    <<<<53265, 32>>, <<53287, 1>>, <<53248, 24>>, <<53249, 50>>, <<53269, 1>>>>

VicScenes == {<<>>, SceneOverlap, SceneBitmap}

\* <<address, data>>: bit 7 into the interrupt latch, the interrupt mask for the
\* raster and the sprite-sprite source, the raster compare line
VicWritePairs == {<<53273, 128>>, <<53274, 5>>, <<53266, 51>>}

VicReadAddrs == {53273, 53278, 53279, 53265, 53266}

InitVic ==
    /\ Holds(PowerOn(Zeros, Zeros, Zeros))
    /\ snapshot = "none"
    /\ last = [op |-> "init"]
    /\ \E scene \in VicScenes :
         hist = [scene |-> scene, lead |-> 0, setup |-> 0, writes |-> 0,
                 ticks |-> 0, adds |-> 0]

Led == hist.lead = VicLeadTicks

SetUp == Led /\ hist.setup = Len(hist.scene)

\* the next write of the set-up
VicSetUpOp ==
    /\ Led /\ ~SetUp
    /\ LET pair == hist.scene[hist.setup + 1]
       IN  /\ Becomes(BusWriteOp(Machine, pair[1], pair[2]))
           /\ last' = [op |-> "write", addr |-> pair[1] % 64, data |-> pair[2]]
    /\ hist' = [hist EXCEPT !.setup = @ + 1]
    /\ UNCHANGED snapshot

VicWriteOp ==
    /\ SetUp
    /\ hist.writes < MaxVicWrites
    /\ \E pair \in VicWritePairs :
         /\ Becomes(BusWriteOp(Machine, pair[1], pair[2]))
         /\ last' = [op |-> "write", addr |-> pair[1] % 64, data |-> pair[2]]
    /\ hist' = [hist EXCEPT !.writes = @ + 1]
    /\ UNCHANGED snapshot

VicReadOp ==
    /\ SetUp
    /\ \E address \in VicReadAddrs :
         LET r == BusRead(Machine, address)
         IN  /\ Becomes(r.m)
             /\ last' = [op |-> "read", addr |-> address % 64, val |-> r.val,
                         adds |-> hist.adds]
             /\ hist' = [hist EXCEPT !.adds = IF address % 64 = 30 THEN 0 ELSE @]
    /\ UNCHANGED snapshot

\* one call of VICII.tick: in the lead, or after the set-up
VicTickOp ==
    /\ ~Led \/ (SetUp /\ hist.ticks < MaxVicTicks)
    /\ LET m == VicTick(Machine)
       IN  /\ Becomes(m)
           /\ hist' = [hist EXCEPT
                         !.lead = IF Led THEN @ ELSE @ + 1,
                         !.ticks = IF Led THEN @ + 1 ELSE @,
                         !.adds = IF m.vic.sprite_sprite_collision
                                       # vic.sprite_sprite_collision
                                  THEN @ + 1 ELSE @]
    /\ last' = [op |-> "tick"]
    /\ UNCHANGED snapshot

NextVic == VicSetUpOp \/ VicWriteOp \/ VicReadOp \/ VicTickOp

SpecVic == InitVic /\ [][NextVic]_vars

\* C7: a read of $D019 has bit 7 set exactly when a latched interrupt flag is
\* enabled in the mask $D01A; bit 7 is never taken from the stored value.
C7_IrqSummaryBitComputed ==
    (last.op = "read" /\ last.addr = 25)
        => (Bit(last.val, 7) = 1
              <=> BitAnd(VicReg(vic, 25) % 128, VicReg(vic, 26) % 128) # 0)

\* C7 witness: $D019 read with an enabled flag latched
C7_Witness ==
    /\ last.op = "read" /\ last.addr = 25
    /\ BitAnd(VicReg(vic, 25) % 128, VicReg(vic, 26) % 128) # 0

\* sprite s shows an opaque pixel in visible column x of the current raster line
OpaqueAt(m, s, x) ==
    LET width == SpritePixelWidth(s)
        rel == x - (s.x - X_SCROLL_OFFSET)
    IN  /\ SpriteOnLine(m.vic, s)
        /\ 0 <= rel /\ rel < SpriteNumPixels(s) * width
        /\ SpriteColorBits(s, SpriteRowBytes(m, s).bytes, rel \div width) # 0

\* the sprites that share a visible pixel with another sprite on the current line
InvolvedOnLine(m) ==
    IF ~(Y_SCROLL_OFFSET <= m.vic.raster_line
         /\ m.vic.raster_line < Y_SCROLL_OFFSET + VISIBLE_HEIGHT)
    THEN {}
    ELSE {n \in 0..7 :
            \E n2 \in (0..7) \ {n} : \E x \in 0..(VISIBLE_WIDTH - 1) :
               OpaqueAt(m, m.vic.sprites[n], x) /\ OpaqueAt(m, m.vic.sprites[n2], x)}

RECURSIVE SpriteBits(_)
SpriteBits(S) ==
    IF S = {} THEN 0
    ELSE LET n == CHOOSE n \in S : TRUE IN 2 ^ n + SpriteBits(S \ {n})

\* C8: the sprite-sprite latch gathers, line by line, the bit of every sprite
\* that shares a pixel with another, nothing but a read of $D01E takes a bit out
\* of it, and that read returns the latch and zeroes it; a read of $D01F returns
\* and zeroes the sprite-data latch the same way.
C8_CollisionLatchAccumulates ==
    [][/\ (last'.op = "read" /\ last'.addr = 30)
            => /\ last'.val = vic.sprite_sprite_collision
               /\ vic'.sprite_sprite_collision = 0
       /\ (last'.op = "read" /\ last'.addr = 31)
            => /\ last'.val = vic.sprite_data_collision
               /\ vic'.sprite_data_collision = 0
       /\ last'.op = "tick"
            => vic'.sprite_sprite_collision =
                 BitOr(vic.sprite_sprite_collision,
                       IF vic'.cycle = 0 THEN SpriteBits(InvolvedOnLine(Machine'))
                       ELSE 0)
       /\ (last'.op = "write" \/ (last'.op = "read" /\ last'.addr # 30))
            => vic'.sprite_sprite_collision = vic.sprite_sprite_collision]_vars

\* C8 witness: a read of $D01E that returned the bits of four sprites gathered
\* on two raster lines, and left the latch zero
C8_Witness ==
    /\ last.op = "read" /\ last.addr = 30
    /\ last.val = 15 /\ last.adds = 2
    /\ vic.sprite_sprite_collision = 0

\* C31: a read of $D012 returns the low 8 bits of the raster line, and a read
\* of $D011 returns bit 8 of the raster line in bit 7 over the low seven bits
\* of the stored control register.
C31_RasterReadback ==
    /\ (last.op = "read" /\ last.addr = 18) => last.val = vic.raster_line % 256
    /\ (last.op = "read" /\ last.addr = 17)
          => /\ Bit(last.val, 7) = Bit(vic.raster_line, 8)
             /\ last.val % 128 = VicReg(vic, 17) % 128

\* C31 witness: $D012 has been read on raster line 50
C31_Witness ==
    /\ last.op = "read" /\ last.addr = 18
    /\ vic.raster_line = 50

\* the sprites that show an opaque pixel in visible column x of the current line
OpaqueSprites(m, x) == {n \in 0..7 : OpaqueAt(m, m.vic.sprites[n], x)}

\* C32: when the line's sprites have been rendered, a buffer cell in which two
\* or more enabled sprites have an opaque pixel holds the colour and the id of
\* the lowest-numbered of them.
C32_LowerSpriteWins ==
    [][(last'.op = "tick" /\ vic'.cycle = 0
        /\ Y_SCROLL_OFFSET <= vic'.raster_line
        /\ vic'.raster_line < Y_SCROLL_OFFSET + VISIBLE_HEIGHT)
         => \A x \in 0..(VISIBLE_WIDTH - 1) :
              Cardinality(OpaqueSprites(Machine', x)) >= 2
                => LET n == Least(OpaqueSprites(Machine', x))
                       s == vic'.sprites[n]
                   IN  BufCell(vic'.sprite_scanline_buffer, x)
                         = <<SpritePixelColor(vic', s, SpriteRowBytes(Machine', s).bytes,
                                              (x - (s.x - X_SCROLL_OFFSET))
                                                 \div SpritePixelWidth(s)),
                             n>>]_vars

\* C32 witness: line 50 rendered with sprites 0 and 1 both opaque in column 0
C32_Witness ==
    /\ last.op = "tick" /\ vic.cycle = 0 /\ vic.raster_line = 50
    /\ OpaqueSprites(Machine, 0) = {0, 1}
    /\ BufCell(vic.sprite_scanline_buffer, 0)[2] # -1

----------------------------------------------------------------------------
(* SpecMem: reads and writes through the bus, over every bank configuration *)
(* of the processor port, with ROM images that hold known bytes.            *)

MaxMemWrites == 3

\* the ROM images load_rom has put in place: a few marked cells, zero elsewhere
BasicImage == (0 :> 177)
KernalImage == (0 :> 225) @@ (8186 :> 250)
CharImage == (0 :> 193) @@ (1024 :> 196) @@ (3074 :> 204) @@ (3342 :> 205)

\* one address in each region of the map: RAM, BASIC, VIC, SID, colour RAM,
\* CIA1, CIA2, and two under the KERNAL
MemAddrs == {32768, 40960, 53248, 54272, 55296, 56322, 56590, 57344, 65530}

\* <<address, data>>: every bank configuration into the port, and one byte
\* into each of the other addresses
MemWritePairs ==
    {<<1, port>> : port \in 48..55} \cup {<<address, 90>> : address \in MemAddrs}

InitMem ==
    /\ Holds(PowerOn(BasicImage, KernalImage, CharImage))
    /\ snapshot = "none"
    /\ last = [op |-> "init"]
    /\ hist = [writes |-> 0, dropped |-> {}]

MemWriteOp ==
    /\ hist.writes < MaxMemWrites
    /\ \E pair \in MemWritePairs :
         LET m == BusWriteOp(Machine, pair[1], pair[2])
         IN  /\ Becomes(m)
             /\ last' = [op |-> "write", addr |-> pair[1], data |-> pair[2]]
             /\ hist' = [hist EXCEPT
                           !.writes = @ + 1,
                           !.dropped = IF pair[1] >= 57344 /\ hiram(mem.processor_port)
                                       THEN @ \cup {pair[1]} ELSE @]
    /\ UNCHANGED snapshot

MemReadOp ==
    /\ \E address \in MemAddrs \cup {0, 1} :
         LET r == BusRead(Machine, address)
         IN  /\ Becomes(r.m)
             /\ last' = [op |-> "read", addr |-> address, val |-> r.val]
    /\ UNCHANGED <<snapshot, hist>>

NextMem == MemWriteOp \/ MemReadOp

SpecMem == InitMem /\ [][NextMem]_vars

\* C4: with HIRAM set, a read of $E000..$FFFF returns the KERNAL ROM byte and a
\* write there changes neither the ROM nor the RAM underneath; no bus operation
\* changes the BASIC, KERNAL or character ROM.
C4_KernalRomReadOnly ==
    [][/\ (last'.op = "read" /\ last'.addr >= 57344 /\ hiram(mem.processor_port))
            => last'.val = Get(mem.kernal_rom, last'.addr - 57344)
       /\ (last'.op = "write" /\ last'.addr >= 57344 /\ hiram(mem.processor_port))
            => mem'.ram = mem.ram
       /\ mem'.basic_rom = mem.basic_rom
       /\ mem'.kernal_rom = mem.kernal_rom
       /\ mem'.char_rom = mem.char_rom]_vars

\* C4 witness: with HIRAM set, a KERNAL address that was written to is read and
\* gives the ROM byte, not the byte written
C4_Witness ==
    /\ last.op = "read" /\ last.addr = 57344
    /\ hiram(mem.processor_port)
    /\ 57344 \in hist.dropped
    /\ last.val = 225

\* C5: with CHAREN set and LORAM or HIRAM set, an access to $D000-$D3FF is the
\* VIC's, to $D400-$D7FF the SID's, to $DC00-$DCFF CIA1's and to $DD00-$DDFF
\* CIA2's, whichever of LORAM and HIRAM is set, and a write leaves the RAM
\* underneath alone; with CHAREN clear and LORAM or HIRAM set, a read of
\* $D000-$DFFF returns the character ROM byte.
C5_IoWindowDecode ==
    [][LET port == mem.processor_port
           a == last'.addr
           banked == loram(port) \/ hiram(port)
           reads == last'.op = "read"
           writes == last'.op = "write"
       IN  /\ (reads /\ banked /\ charen(port))
                => /\ InRange(a, 53248, 54271)
                        => /\ last'.val = VicReadVal(vic, a)
                           /\ vic' = VicRead(vic, a).vic
                   /\ InRange(a, 54272, 55295) => last'.val = SidRead(sid, a)
                   /\ InRange(a, 56320, 56575)
                        => /\ last'.val = CiaReadVal(cia.cia1, a)
                           /\ cia'.cia1 = CiaRead(cia.cia1, a).cia
                   /\ InRange(a, 56576, 56831)
                        => /\ last'.val = CiaReadVal(cia.cia2, a)
                           /\ cia'.cia2 = CiaRead(cia.cia2, a).cia
           /\ (writes /\ banked /\ charen(port))
                => /\ InRange(a, 53248, 54271) => vic' = VicWrite(vic, a, last'.data)
                   /\ InRange(a, 54272, 55295) => sid' = SidWrite(sid, a, last'.data)
                   /\ InRange(a, 56320, 56575)
                        => cia'.cia1 = CiaWrite(cia.cia1, a, last'.data)
                   /\ InRange(a, 56576, 56831)
                        => cia'.cia2 = CiaWrite(cia.cia2, a, last'.data)
                   /\ (InRange(a, 53248, 55295) \/ InRange(a, 56320, 56831))
                        => mem'.ram = mem.ram
           /\ (reads /\ banked /\ ~charen(port) /\ InRange(a, 53248, 57343))
                => last'.val = Get(mem.char_rom, a - 53248)]_vars

\* C5 witness: with CHAREN and LORAM set and HIRAM clear, a VIC register gives
\* back the byte written to it
C5_Witness ==
    /\ last.op = "read" /\ last.addr = 53248
    /\ mem.processor_port = 53
    /\ last.val = 90
    /\ Get(mem.ram, 53248) = 0

\* C13: a read of $0000 returns $2F; a write of v to $0001 leaves v in the
\* processor port and in RAM[$0001]; the port changes by no other operation, a
\* read of $0001 returns the port, so the value written there last, and the
\* bank mapping follows the port from that write on: a read of $E000 returns
\* the KERNAL byte exactly when bit 1 of the port is set.
C13_ProcessorPort ==
    [][/\ (last'.op = "read" /\ last'.addr = 0) => last'.val = 47
       /\ (last'.op = "write" /\ last'.addr = 1)
            => /\ mem'.processor_port = last'.data
               /\ Get(mem'.ram, 1) = last'.data
       /\ mem'.processor_port # mem.processor_port
            => last'.op = "write" /\ last'.addr = 1
       /\ (last'.op = "read" /\ last'.addr = 1) => last'.val = mem.processor_port
       /\ (last'.op = "read" /\ last'.addr = 57344)
            => last'.val = IF Bit(mem.processor_port, 1) = 1
                           THEN Get(mem.kernal_rom, 0)
                           ELSE Get(mem.ram, 57344)]_vars

\* C13 witness: a read of $0001 that returns a port value written there, which
\* the RAM cell holds too
C13_Witness ==
    /\ last.op = "read" /\ last.addr = 1
    /\ last.val = 52
    /\ mem.processor_port = 52
    /\ Get(mem.ram, 1) = 52

\* C14: a write of v to a colour RAM address ($D800-$DBFF) that the decode gives
\* to the colour RAM leaves v AND $0F in the cell, and every colour RAM cell is
\* in 0..15.
C14_ColorRamNibble ==
    [][/\ (/\ last'.op = "write"
           /\ WriteTarget(mem.processor_port, last'.addr) = "color")
            => Get(mem'.color_ram, last'.addr - 55296) = last'.data % 16
       /\ \A k \in DOMAIN mem'.color_ram : mem'.color_ram[k] \in 0..15]_vars

\* C14 witness: a write that went to the colour RAM
C14_Witness ==
    /\ last.op = "write" /\ last.addr = 55296
    /\ 0 \in DOMAIN mem.color_ram
    /\ Get(mem.ram, 55296) = 0

\* C15: a write to an address at which a read returns ROM (BASIC, character or
\* KERNAL ROM under the port as it stands) leaves the RAM array unchanged.
C15_RomWritesDropped ==
    [][(/\ last'.op = "write"
        /\ ReadSource(mem.processor_port, last'.addr) \in {"basic", "char", "kernal"})
         => mem'.ram = mem.ram]_vars

\* C15 witness: a write to $D000 made while the character ROM was visible there
C15_Witness ==
    /\ last.op = "write" /\ last.addr = 53248
    /\ ~charen(mem.processor_port)
    /\ loram(mem.processor_port) \/ hiram(mem.processor_port)
    /\ vic.registers = Zeros

----------------------------------------------------------------------------
(* SpecCpu: the CPU clocked through a small program, with interrupt         *)
(* requests arriving between ticks through CPU.irq and CPU.nmi.             *)

MaxCpuTicks == 30
MaxRequests == 2

\* the KERNAL image: NMI vector $2000, RESET vector $1000, IRQ vector $3000
KernalVectors == (8187 :> 32) @@ (8189 :> 16) @@ (8191 :> 48)

\* $1000  LDX #2 / DEX / BNE $1002 / LDY #1 / LDA $10FF,Y / STA $D011
\* $100D  NOP / NOP / NOP / NOP / JMP $100D
MainProgram ==
    <<162, 2, 202, 208, 253, 160, 1, 185, 255, 16, 141, 17, 208,
      234, 234, 234, 234, 76, 13, 16>>

\* $1100  the byte the program stores into $D011 (display enable)
MainData == <<16>>

\* $2000  INX / RTI
NmiHandler == <<232, 64>>

\* $3000  INY / RTI
IrqHandler == <<200, 64>>

\* the machine after reset_and_load with the program in place of the .prg file:
\* the ROMs are loaded, the program is written through the bus and the PC is
\* read from the reset vector
reset_and_load ==
    LoadVector(
        load_program(
            load_program(
                load_program(
                    load_program(PowerOn(Zeros, KernalVectors, Zeros),
                                 4096, MainProgram),
                    4352, MainData),
                8192, NmiHandler),
            12288, IrqHandler),
        65532)

InitCpu ==
    /\ Holds(reset_and_load)
    /\ snapshot = "none"
    /\ last = [op |-> "init"]
    /\ hist = [ticks |-> 0, irqs |-> 0, nmis |-> 0, charged |-> 0]

\* one call of CPU.tick
CpuTickOp ==
    /\ hist.ticks < MaxCpuTicks
    /\ \E t \in {Tick(Machine)} :
           /\ Becomes(t.m)
           /\ last' = [op |-> "tick", log |-> t.log, chk |-> t.chk,
                       serviced |-> t.serviced, pc_int |-> t.pc_int,
                       opcode |-> t.opcode, cost |-> t.cost, stolen |-> t.stolen]
           /\ hist' = [hist EXCEPT !.ticks = @ + 1,
                                   !.charged = @ + t.cost + t.stolen]
    /\ UNCHANGED snapshot

\* a device calls CPU.irq
IrqOp ==
    /\ hist.irqs < MaxRequests
    /\ ~cpu.irq_pending
    /\ cpu' = CpuIrq(cpu)
    /\ last' = [op |-> "irq"]
    /\ hist' = [hist EXCEPT !.irqs = @ + 1]
    /\ UNCHANGED <<mem, bus, vic, sid, cia, snapshot>>

\* a device calls CPU.nmi
NmiOp ==
    /\ hist.nmis < MaxRequests
    /\ ~cpu.nmi_pending
    /\ cpu' = CpuNmi(cpu)
    /\ last' = [op |-> "nmi"]
    /\ hist' = [hist EXCEPT !.nmis = @ + 1]
    /\ UNCHANGED <<mem, bus, vic, sid, cia, snapshot>>

NextCpu == CpuTickOp \/ IrqOp \/ NmiOp

SpecCpu == InitCpu /\ [][NextCpu]_vars

\* C1: a tick runs VIC-II tick, badline accounting, CIA1 tick, CIA2 tick, NMI
\* check, IRQ check, KERNAL trap check and instruction progress in that order;
\* when the NMI and the IRQ latch are both set at the interrupt check and I is
\* clear, the tick services the NMI alone, the PC is loaded from $FFFA/$FFFB
\* and the IRQ stays pending.
C1_TickOrderNmiBeforeIrq ==
    last.op = "tick" =>
        /\ last.log = <<"vic", "badline", "cia1", "cia2", "nmi", "irq", "trap", "instr">>
        /\ (last.chk.nmi /\ last.chk.irq /\ ~last.chk.i)
              => /\ last.serviced = <<"nmi">>
                 /\ last.pc_int = last.chk.vector
                 /\ cpu.irq_pending
                 /\ ~cpu.nmi_pending

\* C1 witness: a tick that found both latches set with I clear, serviced the
\* NMI and went on from the NMI vector $2000
C1_Witness ==
    /\ last.op = "tick"
    /\ last.chk.nmi /\ last.chk.irq /\ ~last.chk.i
    /\ last.serviced = <<"nmi">>
    /\ last.pc_int = 8192
    /\ cpu.irq_pending

\* C3: after any sequence of ticks total_cycles is the sum, over the
\* instructions executed, of base cycles, branch-taken penalty and page-cross
\* penalty, plus the cycles stolen by badlines.
C3_TotalCyclesCountsAllCosts ==
    cpu.total_cycles = hist.charged

\* C3 witness: a taken branch has been executed
C3_Witness ==
    /\ last.op = "tick"
    /\ last.opcode = 208
    /\ last.cost = 3

\* C22: the tick that services an IRQ or NMI writes the high byte of the PC at
\* $0100 + SP, the low byte below it and below that the status with B clear;
\* the tick that executes RTI takes the status, then the low and the high byte
\* of the PC from the three bytes above SP, so that afterwards the PC is the PC
\* that was pushed, SP is three higher and N, V, D, I, Z, C are as pushed.
C22_InterruptRtiInverse ==
    [][last'.op = "tick"
         => /\ last'.serviced # <<>>
                 => /\ Get(mem'.ram, 256 + cpu.sp) = (cpu.pc \div 256) % 256
                    /\ Get(mem'.ram, 256 + cpu.sp - 1) = cpu.pc % 256
                    /\ Get(mem'.ram, 256 + cpu.sp - 2)
                         = StatusByte([cpu EXCEPT !.b = FALSE])
            /\ (last'.opcode = 64 /\ last'.serviced = <<>>)
                 => LET status == Get(mem.ram, 256 + cpu.sp + 1)
                        lsb == Get(mem.ram, 256 + cpu.sp + 2)
                        msb == Get(mem.ram, 256 + cpu.sp + 3)
                    IN  /\ cpu'.pc = msb * 256 + lsb
                        /\ cpu'.sp = cpu.sp + 3
                        /\ cpu'.n = (Bit(status, 7) = 1)
                        /\ cpu'.v = (Bit(status, 6) = 1)
                        /\ cpu'.d = (Bit(status, 3) = 1)
                        /\ cpu'.i = (Bit(status, 2) = 1)
                        /\ cpu'.z = (Bit(status, 1) = 1)
                        /\ cpu'.c = (Bit(status, 0) = 1)]_vars

\* C22 witness: the RTI of the IRQ handler has been executed and the stack is
\* back where it was
C22_Witness ==
    /\ last.op = "tick" /\ last.opcode = 64
    /\ hist.irqs > 0
    /\ cpu.sp = 255 /\ ~cpu.i

----------------------------------------------------------------------------
(* SpecSnap: the running machine with the save-state file written by        *)
(* _save_state and read back by _restore_state at any later point.          *)

MaxSnapTicks == 4
MaxSnapWrites == 2
MaxSaves == 1
MaxRestores == 1

\* <<address, data>>: a RAM cell, the processor port, a colour RAM cell
SnapWritePairs == {<<1024, 90>>, <<1, 53>>, <<55296, 5>>}

\* the machine state the snapshot answers for
SnapState(m) ==
    [cpu |-> m.cpu, ram |-> m.mem.ram, processor_port |-> m.mem.processor_port,
     color_ram |-> m.mem.color_ram, vic |-> m.vic, sid |-> m.sid, cia |-> m.cia]

InitSnap ==
    /\ Holds(reset_and_load)
    /\ snapshot = "none"
    /\ last = [op |-> "init"]
    /\ hist = [ticks |-> 0, writes |-> 0, irqs |-> 0, saves |-> 0, restores |-> 0,
               saved |-> "none"]

SnapTickOp ==
    /\ hist.ticks < MaxSnapTicks
    /\ Becomes(Tick(Machine).m)
    /\ last' = [op |-> "tick"]
    /\ hist' = [hist EXCEPT !.ticks = @ + 1]
    /\ UNCHANGED snapshot

SnapWriteOp ==
    /\ hist.writes < MaxSnapWrites
    /\ \E pair \in SnapWritePairs :
         /\ Becomes(BusWriteOp(Machine, pair[1], pair[2]))
         /\ last' = [op |-> "write", addr |-> pair[1], data |-> pair[2]]
    /\ hist' = [hist EXCEPT !.writes = @ + 1]
    /\ UNCHANGED snapshot

SnapIrqOp ==
    /\ hist.irqs < 1
    /\ ~cpu.irq_pending
    /\ cpu' = CpuIrq(cpu)
    /\ last' = [op |-> "irq"]
    /\ hist' = [hist EXCEPT !.irqs = @ + 1]
    /\ UNCHANGED <<mem, bus, vic, sid, cia, snapshot>>

\* _save_state: the file is written, the machine is left as it is
SaveOp ==
    /\ hist.saves < MaxSaves
    /\ snapshot' = save_state(Machine)
    /\ last' = [op |-> "save"]
    /\ hist' = [hist EXCEPT !.saves = @ + 1, !.saved = SnapState(Machine)]
    /\ UNCHANGED <<cpu, mem, bus, vic, sid, cia>>

\* _restore_state of the file written last (there is one once a save was made)
RestoreOp ==
    /\ hist.saves > 0
    /\ hist.restores < MaxRestores
    /\ Becomes(restore_state(Machine, snapshot))
    /\ last' = [op |-> "restore"]
    /\ hist' = [hist EXCEPT !.restores = @ + 1]
    /\ UNCHANGED snapshot

\* the keys a damaged file lacks: one of the chips', the CPU's, or one inside
\* the CPU's dictionary
DroppedKeys == {"cpu", "sp", "vic", "sid", "cia2"}

\* the file without the key
Without(state, key) ==
    IF key \in DOMAIN state
    THEN [k \in (DOMAIN state) \ {key} |-> state[k]]
    ELSE [state EXCEPT !.cpu = [k \in (DOMAIN state.cpu) \ {key} |-> state.cpu[k]]]

\* _restore_state of the file written last, read back with a key gone
RestoreDamagedOp ==
    /\ hist.saves > 0
    /\ hist.restores < MaxRestores
    /\ \E key \in DroppedKeys :
         /\ Becomes(restore_state(Machine, Without(snapshot, key)))
         /\ last' = [op |-> "restore_failed", dropped |-> key,
                     failed |-> RestoreFails(Without(snapshot, key))]
    /\ hist' = [hist EXCEPT !.restores = @ + 1]
    /\ UNCHANGED snapshot

NextSnap ==
    SnapTickOp \/ SnapWriteOp \/ SnapIrqOp \/ SaveOp \/ RestoreOp \/ RestoreDamagedOp

SpecSnap == InitSnap /\ [][NextSnap]_vars

\* C2: reading a snapshot back gives the machine state it was written from: CPU
\* registers and flags, cycles_remaining and the pending-interrupt latches,
\* RAM, processor port, colour RAM, VIC-II, SID and both CIAs.
C2_RestoreGivesSavedState ==
    last.op = "restore" => SnapState(Machine) = hist.saved

\* C2 witness: a snapshot is read back after a RAM cell was written since it
\* was taken
C2_Witness ==
    /\ last.op = "restore"
    /\ Get(hist.saved.ram, 1024) = 0
    /\ Get(mem.ram, 1024) = 90

\* C34: a restore that fails on a key the file lacks leaves the CPU registers
\* and flags, the memory and every chip as they were before it.
C34_FailedRestoreKeepsState ==
    [][(last'.op = "restore_failed" /\ last'.failed)
         => /\ cpu' = cpu /\ mem' = mem
            /\ vic' = vic /\ sid' = sid /\ cia' = cia]_vars

\* C34 witness: after a save and two ticks of the machine, a restore failed on
\* the missing key sid
C34_Witness ==
    /\ last.op = "restore_failed" /\ last.failed /\ last.dropped = "sid"
    /\ hist.ticks >= 2

----------------------------------------------------------------------------
(* SpecCart: a cartridge file attached with Bus.load_crt, then reads and    *)
(* writes through the bus under several bank configurations.                *)

MaxCartWrites == 2

\* the chips of a cartridge file: load address to bytes, a few marked cells
Chip8k == (32768 :> ((0 :> 195) @@ (8191 :> 197)))
Chip16k == Chip8k @@ (40960 :> (0 :> 198))

\* the cartridge files: every setting of the EXROM and GAME header bytes with
\* an 8k or a 16k image, a file with a wrong magic string, and a missing file
CrtFiles ==
    {[found |-> TRUE, magic |-> "C64 ", type |-> 0, exrom |-> e, game |-> g,
      chips |-> c] : e \in 0..1, g \in 0..1, c \in {Chip8k, Chip16k}}
    \cup {[found |-> TRUE, magic |-> "XXXX", type |-> 0, exrom |-> 0, game |-> 1,
           chips |-> Chip8k],
          [found |-> FALSE, magic |-> "", type |-> 0, exrom |-> 0, game |-> 0,
           chips |-> Zeros]}

\* a well-formed file whose GAME byte is 1 and which has a chip for $8000
GameChipAt8000(file) ==
    /\ file.found /\ file.magic = "C64 "
    /\ file.game = 1
    /\ 32768 \in DOMAIN file.chips

CartAddrs == {32768, 40959, 40960}

\* <<address, data>>: three bank configurations, and a byte into each address
CartWritePairs ==
    {<<1, 48>>, <<1, 51>>, <<1, 55>>} \cup {<<address, 90>> : address \in CartAddrs}

InitCart ==
    /\ Holds(PowerOn(BasicImage, KernalImage, CharImage))
    /\ snapshot = "none"
    /\ last = [op |-> "init"]
    /\ hist = [crt |-> << >>, writes |-> 0]

\* the cartridge is attached once, at the start
LoadCrtOp ==
    /\ hist.crt = << >> /\ hist.writes = 0
    /\ \E file \in CrtFiles :
         /\ Becomes(load_crt(Machine, file))
         /\ hist' = [hist EXCEPT !.crt = <<file>>]
    /\ last' = [op |-> "load_crt"]
    /\ UNCHANGED snapshot

CartWriteOp ==
    /\ hist.writes < MaxCartWrites
    /\ \E pair \in CartWritePairs :
         /\ Becomes(BusWriteOp(Machine, pair[1], pair[2]))
         /\ last' = [op |-> "write", addr |-> pair[1], data |-> pair[2]]
    /\ hist' = [hist EXCEPT !.writes = @ + 1]
    /\ UNCHANGED snapshot

CartReadOp ==
    /\ \E r \in {BusRead(Machine, address) : address \in CartAddrs} :
         /\ Becomes(r.m)
         /\ last' = [op |-> "read", addr |-> r.addr, val |-> r.val]
    /\ UNCHANGED <<snapshot, hist>>

NextCart == LoadCrtOp \/ CartWriteOp \/ CartReadOp

SpecCart == InitCart /\ [][NextCart]_vars

\* C16: once a cartridge file with GAME = 1 and a chip for $8000 is attached,
\* a bus read of $8000-$9FFF returns the chip's byte at address - $8000,
\* whatever the processor port holds.
C16_CartridgeDecodedFirst ==
    [][(/\ last'.op = "read" /\ InRange(last'.addr, 32768, 40959)
        /\ hist.crt # << >> /\ GameChipAt8000(hist.crt[1]))
         => last'.val = Get(hist.crt[1].chips[32768], last'.addr - 32768)]_vars

\* C16 witness: with such a file attached, a read of $8000
C16_Witness ==
    /\ last.op = "read" /\ last.addr = 32768
    /\ hist.crt # << >> /\ GameChipAt8000(hist.crt[1])

----------------------------------------------------------------------------
(* SpecInstr: one instruction placed in memory, the reset vector pointing   *)
(* at it, and the CPU clocked from there.  The cases are the relative       *)
(* branches at both ends and in the middle of a page, and JMP indirect with *)
(* its pointer in the last byte of a page.                                  *)

MaxInstrTicks == 5

BranchOpcodes == {16, 48, 80, 112, 144, 176, 208, 240}
BranchAddrs == {4096, 4224, 4349, 4350}
BranchOffsets == {253, 255, 1, 4}

\* the pages of the pointer of JMP ($XXFF)
JmpPages == {16, 32, 128}

\* a case: where the code goes, its bytes, and the data blocks <<start, bytes>>
BranchCases ==
    {[kind |-> "branch", addr |-> a, code |-> <<op, off>>, blocks |-> <<>>] :
        a \in BranchAddrs, op \in BranchOpcodes, off \in BranchOffsets}

\* JMP ($XXFF) at $0800: $34 in $XXFF, $12 in $XXFF + 1, $56 in $XX00
JmpCases ==
    {[kind |-> "jmp", addr |-> 2048, code |-> <<108, 255, page>>,
      blocks |-> <<<<page * 256 + 255, <<52, 18>>>>, <<page * 256, <<86>>>>>>] :
        page \in JmpPages}

\* BRK followed by a NOP, in the middle of a page and in its last byte
BrkCases ==
    {[kind |-> "brk", addr |-> a, code |-> <<0, 234>>, blocks |-> <<>>] :
        a \in {4096, 4351}}

\* the undocumented NOPs of nop_cycles, by the form the table names
NopOneByte == {26, 58, 90, 122, 218, 250}
NopTwoByte == {128, 130, 137, 194, 226, 4, 68, 100, 20, 52, 84, 116, 212, 244}
NopThreeByte == {12, 28, 60, 92, 124, 220, 252}

\* an undocumented NOP followed by two operand bytes that are no NOP
NopCases ==
    {[kind |-> "nop", addr |-> 4096, code |-> <<op, 232, 200>>, blocks |-> <<>>] :
        op \in NopOneByte \cup NopTwoByte \cup NopThreeByte}

\* bytes that are in no table
UnknownOpcodes == {2, 18, 255}

UnknownCases ==
    {[kind |-> "unknown", addr |-> a, code |-> <<op, 232>>, blocks |-> <<>>] :
        a \in {4096, 4351}, op \in UnknownOpcodes}

InstrCases == BranchCases \cup JmpCases \cup BrkCases \cup NopCases \cup UnknownCases

\* Bus.load_program for each block in turn
RECURSIVE LoadBlocks(_, _)
LoadBlocks(m, blocks) ==
    IF blocks = <<>> THEN m
    ELSE LET Onward(m1) == IF m1.cpu.pc >= 0 THEN LoadBlocks(m1, Tail(blocks)) ELSE m1
         IN  Onward(load_program(m, Head(blocks)[1], Head(blocks)[2]))

\* a KERNAL image whose RESET vector ($FFFC/$FFFD) holds address and whose
\* IRQ/BRK vector ($FFFE/$FFFF) holds $3000
ResetTo(address) ==
    (8188 :> address % 256) @@ (8189 :> address \div 256) @@ (8191 :> 48)

\* reset_and_load with the case's bytes in place of the .prg file
InstrMachine(case) ==
    LoadVector(
        LoadBlocks(load_program(PowerOn(Zeros, ResetTo(case.addr), Zeros),
                                case.addr, case.code),
                   case.blocks),
        65532)

InitInstr ==
    /\ \E case \in InstrCases :
         /\ Holds(InstrMachine(case))
         /\ hist = [case |-> case, ticks |-> 0, fetches |-> <<>>]
    /\ snapshot = "none"
    /\ last = [op |-> "init"]

\* one call of CPU.tick; a tick that fetches an opcode is noted with its number
\* and the cycles the instruction was charged
InstrTickOp ==
    /\ hist.ticks < MaxInstrTicks
    /\ \E t \in {Tick(Machine)} :
           /\ Becomes(t.m)
           /\ last' = [op |-> "tick", opcode |-> t.opcode, cost |-> t.cost,
                       pc |-> cpu.pc]
           /\ hist' = [hist EXCEPT
                         !.ticks = @ + 1,
                         !.fetches = IF t.opcode = -1 THEN @
                                     ELSE Append(@, [tick |-> hist.ticks + 1,
                                                     cost |-> t.cost])]
    /\ UNCHANGED snapshot

NextInstr == InstrTickOp

SpecInstr == InitInstr /\ [][NextInstr]_vars

\* the offset byte as the signed displacement it stands for
Signed(offset) == IF offset >= 128 THEN offset - 256 ELSE offset

\* the tick that fetches and executes the instruction of the case
ExecutesCase == hist.ticks = 0 /\ last'.op = "tick" /\ last'.opcode = hist.case.code[1]

\* C17: the tick that executes a relative branch at address a with offset byte
\* d leaves the cost 2 when the branch is not taken (the PC goes to a + 2), 3
\* when it is taken (the PC goes to a + 2 + d, d # 0) and the target is in the
\* page of a + 2, and 4 when the target is in another page.
C17_BranchCycles ==
    [][(ExecutesCase /\ hist.case.kind = "branch")
         => LET next == hist.case.addr + 2
                target == next + Signed(hist.case.code[2])
            IN  /\ cpu'.pc \in {next, target}
                /\ last'.cost = IF cpu'.pc = next THEN 2
                                ELSE IF Page(target) = Page(next) THEN 3 ELSE 4]_vars

\* C17 witness: a branch in the last bytes of a page was taken backwards into
\* the same page, the instruction after it lying in the next page
C17_Witness ==
    /\ hist.case.kind = "branch" /\ hist.ticks = 1
    /\ hist.case.addr = 4350 /\ hist.case.code[2] = 253
    /\ cpu.pc = 4349

\* C18: with no badline, interrupt or trap in between, the tick that fetches
\* the next instruction is the N-th tick after the tick that fetched an
\* instruction of cost N.
C18_CostAmortizedExactly ==
    \A k \in 1..(Len(hist.fetches) - 1) :
        hist.fetches[k + 1].tick - hist.fetches[k].tick = hist.fetches[k].cost

\* C18 witness: a branch that was not taken, charged 2 cycles, and the fetch of
\* the instruction after it
C18_Witness ==
    /\ hist.case.kind = "branch"
    /\ Len(hist.fetches) = 2
    /\ hist.fetches[1].cost = 2
    /\ cpu.total_cycles > 2

\* C20: JMP ($XXFF) loads the PC with the low byte read from $XXFF and the high
\* byte read from $XX00.
C20_JmpIndirectPageWrap ==
    [][(ExecutesCase /\ hist.case.kind = "jmp")
         => LET page == hist.case.code[3]
            IN  cpu'.pc = MemReadVal(Machine, page * 256) * 256
                          + MemReadVal(Machine, page * 256 + 255)]_vars

\* C20 witness: JMP ($XXFF) has been executed
C20_Witness ==
    /\ hist.case.kind = "jmp" /\ hist.ticks = 1
    /\ last.opcode = 108
    /\ cpu.pc \in {4660, 22068}

\* C21: the tick that executes BRK at address p writes the high byte of p + 2
\* at $0100 + SP, its low byte below it and the status (as it stood before or
\* as it stands after) below that, leaves SP three lower and I set, and leaves in the PC the vector held at $FFFE/$FFFF,
\* where the next instruction is fetched.
C21_BrkPushesAndVectors ==
    [][(ExecutesCase /\ hist.case.kind = "brk")
         => LET ret == hist.case.addr + 2
            IN  /\ Get(mem'.ram, 256 + cpu.sp) = ret \div 256
                /\ Get(mem'.ram, 256 + cpu.sp - 1) = ret % 256
                /\ Get(mem'.ram, 256 + cpu.sp - 2) \in {StatusByte(cpu), StatusByte(cpu')}
                /\ cpu'.sp = cpu.sp - 3
                /\ cpu'.i
                /\ cpu'.pc = Word(Machine, 65534, 65535)]_vars

\* C21 witness: BRK has been executed and has pushed three bytes
C21_Witness ==
    /\ hist.case.kind = "brk" /\ hist.ticks = 1
    /\ last.opcode = 0
    /\ cpu.sp = 252 /\ cpu.i

\* the registers and flags of the CPU other than PC and the cycle counters
Registers(p) == <<p.a, p.x, p.y, p.sp, p.n, p.v, p.b, p.d, p.i, p.z, p.c>>

\* C26: an undocumented NOP advances PC by 1 (one-byte forms), 2 (immediate,
\* zero-page and zero-page,X forms) or 3 (absolute and absolute,X forms), and
\* changes no register, flag or memory cell.
C26_UndocumentedNopLength ==
    [][(ExecutesCase /\ hist.case.kind = "nop")
         => /\ cpu'.pc = cpu.pc + (IF last'.opcode \in NopOneByte THEN 1
                                   ELSE IF last'.opcode \in NopTwoByte THEN 2
                                   ELSE 3)
            /\ Registers(cpu') = Registers(cpu)
            /\ mem' = mem]_vars

\* C26 witness: the three-byte NOP $0C has been executed
C26_Witness ==
    /\ hist.case.kind = "nop" /\ hist.ticks = 1
    /\ last.opcode = 12 /\ last.cost = 4

\* C27: a tick that fetches a byte that is in no table changes none of A, X, Y,
\* SP, PC, the flags, memory or total_cycles; so the same byte is fetched by
\* every later tick.
C27_UnknownOpcodeHalts ==
    [][(last'.op = "tick" /\ hist.case.kind = "unknown")
         => /\ last'.opcode = hist.case.code[1]
            /\ cpu.pc = hist.case.addr
            /\ cpu'.pc = cpu.pc
            /\ Registers(cpu') = Registers(cpu)
            /\ cpu'.total_cycles = cpu.total_cycles
            /\ mem' = mem]_vars

\* C27 witness: the third tick in a row has fetched the unknown byte $02
C27_Witness ==
    /\ hist.case.kind = "unknown" /\ hist.ticks = 3
    /\ last.opcode = 2 /\ cpu.pc = hist.case.addr
    /\ Len(hist.fetches) = 3

----------------------------------------------------------------------------
(* SpecBadline: the CPU looping on JMP $1000 with the display enabled,      *)
(* clocked from reset across the first raster lines of the visible area:    *)
(* after 3148 ticks the machine stands two ticks before raster line 50, the *)
(* CPU about to fetch the JMP again.                                        *)

MaxBadlineTicks == 70

\* the ticks from reset that end two ticks before raster line 50
LeadTicks == 787 * 4

\* $1000  JMP $1000
LoopProgram == <<76, 0, 16>>

\* the values of $D011: display enabled with vertical scroll 2, 3 and 4, so
\* that the first badline is raster line 50, 51 or 52
BadlineD011 == {18, 27, 20}

\* reset_and_load with the loop and the $D011 byte in place of the .prg file
BadlineMachine(d011) ==
    LoadVector(
        load_program(load_program(PowerOn(Zeros, KernalVectors, Zeros),
                                  4096, LoopProgram),
                     53265, <<d011>>),
        65532)

InitBadline ==
    /\ \E d011 \in BadlineD011 :
         /\ Holds(BadlineMachine(d011))
         /\ hist = [d011 |-> d011, ticks |-> 0, charged |-> {}, fetches |-> <<>>]
    /\ snapshot = "none"
    /\ last = [op |-> "init"]

\* one call of CPU.tick; the raster lines whose badline was charged and the
\* ticks that fetched an opcode are noted
BadlineTickOp ==
    /\ hist.ticks < LeadTicks + MaxBadlineTicks
    /\ \E t \in {Tick(Machine)} :
           /\ Becomes(t.m)
           /\ last' = [op |-> "tick", opcode |-> t.opcode, cost |-> t.cost,
                       stolen |-> t.stolen]
           /\ hist' = [hist EXCEPT
                         !.ticks = @ + 1,
                         !.charged = IF t.stolen > 0
                                     THEN @ \cup {t.m.vic.raster_line} ELSE @,
                         !.fetches = IF t.opcode = -1 THEN @
                                     ELSE <<[tick |-> hist.ticks + 1,
                                             cost |-> t.cost]>>]
    /\ UNCHANGED snapshot

NextBadline == BadlineTickOp

SpecBadline == InitBadline /\ [][NextBadline]_vars

\* C19: the badline accounting of a tick never leaves cycles_remaining below 0,
\* the 40 cycles are charged once for a raster line that is a badline, and a
\* tick fetches an opcode only when the cycles of the instruction fetched
\* before it have been waited out, one tick each.
C19_BadlineStallsCpu ==
    [][last'.op = "tick"
         => /\ cpu.cycles_remaining - last'.stolen >= 0
            /\ last'.stolen > 0 => vic'.raster_line \notin hist.charged
            /\ (last'.opcode # -1 /\ hist.fetches # <<>>)
                 => hist.ticks + 1 - hist.fetches[1].tick >= hist.fetches[1].cost]_vars

\* C19 witness: a tick on a badline, charged its 40 cycles
C19_Witness ==
    /\ last.op = "tick" /\ last.stolen = get_cycles_stolen
    /\ is_badline(vic)
    /\ vic.raster_line \in hist.charged

----------------------------------------------------------------------------
(* SpecAlu: single instructions on chosen register values.  Each case is a  *)
(* short program at $1000: three two-cycle instructions that set the        *)
(* registers and flags, then the instruction under study.                   *)

MaxAluTicks == 10

\* the ticks the three setting instructions take: two cycles each, and the
\* tick of each fetch
SetupTicks == 3 * (2 + 1)

ZpOperands == {16, 128, 240, 253}
ZpIndexes == {0, 5, 32, 255}
BcdDigits == 0 .. 9
BcdBytes == {hi * 16 + lo : hi \in BcdDigits, lo \in BcdDigits}
SbcAccumulators == {80, 208}
SbcOperands == {240, 176, 112, 48}

\* LDA #$AB / LDY #$CD / LDX #r / STA b,X
ZpxCases ==
    {[kind |-> "zpx", p |-> b, q |-> r, cin |-> 0,
      code |-> <<169, 171, 160, 205, 162, r, 149, b>>] :
        b \in ZpOperands, r \in ZpIndexes}

\* LDA #$CD / LDX #$AB / LDY #r / STX b,Y
ZpyCases ==
    {[kind |-> "zpy", p |-> b, q |-> r, cin |-> 0,
      code |-> <<169, 205, 162, 171, 160, r, 150, b>>] :
        b \in ZpOperands, r \in ZpIndexes}

\* SED / SEC or CLC / LDA #a / ADC #operand
AdcCases ==
    {[kind |-> "adc", p |-> a, q |-> operand, cin |-> c,
      code |-> <<248, IF c = 1 THEN 56 ELSE 24, 169, a, 105, operand>>] :
        a \in BcdBytes, operand \in BcdBytes, c \in {0, 1}}

\* CLD / SEC or CLC / LDA #a / SBC #operand
SbcCases ==
    {[kind |-> "sbc", p |-> a, q |-> operand, cin |-> c,
      code |-> <<216, IF c = 1 THEN 56 ELSE 24, 169, a, 233, operand>>] :
        a \in SbcAccumulators, operand \in SbcOperands, c \in {0, 1}}

AluCases == ZpxCases \cup ZpyCases \cup AdcCases \cup SbcCases

\* reset_and_load with the case's bytes in place of the .prg file
AluMachine(case) ==
    LoadVector(load_program(PowerOn(Zeros, ResetTo(4096), Zeros), 4096, case.code),
               65532)

InitAlu ==
    /\ \E case \in AluCases :
         /\ Holds(AluMachine(case))
         /\ hist = [case |-> case, ticks |-> 0]
    /\ snapshot = "none"
    /\ last = [op |-> "init"]

\* one call of CPU.tick
AluTickOp ==
    /\ hist.ticks < MaxAluTicks
    /\ \E t \in {Tick(Machine)} :
           /\ Becomes(t.m)
           /\ last' = [op |-> "tick", opcode |-> t.opcode, cost |-> t.cost]
           /\ hist' = [hist EXCEPT !.ticks = @ + 1]
    /\ UNCHANGED snapshot

NextAlu == AluTickOp

SpecAlu == InitAlu /\ [][NextAlu]_vars

\* the step is the tick that fetches and executes the instruction under study
ExecutesAlu ==
    /\ hist.ticks = SetupTicks
    /\ last'.op = "tick"
    /\ last'.opcode = hist.case.code[Len(hist.case.code) - 1]

\* the byte that encodes the two decimal digits of n
BcdOf(n) == (n \div 10) * 16 + (n % 10)

\* the number a BCD byte encodes
DecOf(byte) == (byte \div 16) * 10 + (byte % 16)

\* C23: STA b,X and STX b,Y store at (b + r) mod 256 for every operand byte b
\* and index value r, and leave every address above $00FF as it was.
C23_ZeroPageIndexWraps ==
    [][(ExecutesAlu /\ hist.case.kind \in {"zpx", "zpy"})
         => /\ Get(mem'.ram, (hist.case.p + hist.case.q) % 256) = 171
            /\ \A address \in 256 .. 511 :
                 Get(mem'.ram, address) = Get(mem.ram, address)]_vars

\* C23 witness: a store whose operand plus index passes $FF has been executed
C23_Witness ==
    /\ hist.case.kind \in {"zpx", "zpy"}
    /\ hist.ticks = SetupTicks + 1
    /\ hist.case.p + hist.case.q > 255
    /\ last.opcode \in {149, 150}

\* C24: in decimal mode, ADC of two valid BCD bytes with carry-in c leaves in A
\* the BCD encoding of (A + operand + c) mod 100, and C set iff the sum is
\* above 99.
C24_DecimalAdc ==
    [][(ExecutesAlu /\ hist.case.kind = "adc")
         => LET sum == DecOf(hist.case.p) + DecOf(hist.case.q) + hist.case.cin
            IN  /\ cpu.d /\ cpu.a = hist.case.p /\ cpu.c = (hist.case.cin = 1)
                /\ cpu'.a = BcdOf(sum % 100)
                /\ cpu'.c = (sum > 99)]_vars

\* C24 witness: $99 + $01 with carry in has been added: A = $01 and C set
C24_Witness ==
    /\ hist.case.kind = "adc" /\ hist.case.p = 153 /\ hist.case.q = 1
    /\ hist.case.cin = 1
    /\ hist.ticks = SetupTicks + 1 /\ last.opcode = 105
    /\ cpu.a = 1 /\ cpu.c

\* C25, as claimed: binary SBC with A=$50, C=1 and operand $F0 sets V.
C25_SbcSetsOverflow ==
    [][(ExecutesAlu /\ hist.case.kind = "sbc" /\ hist.case.p = 80
          /\ hist.case.q = 240 /\ hist.case.cin = 1)
         => cpu'.v]_vars

\* C25, amended: binary SBC with A=$50, C=1 and operand $F0 leaves A=$60 and
\* V clear (80 - (-16) = 96 is in range); with operand $B0 it sets V
\* (80 - (-80) = 160 is not).
C25_SbcOverflowStandard ==
    [][(ExecutesAlu /\ hist.case.kind = "sbc" /\ hist.case.p = 80
          /\ hist.case.cin = 1 /\ hist.case.q \in {240, 176})
         => /\ ~cpu.d /\ cpu.a = 80 /\ cpu.c
            /\ cpu'.a = (80 - hist.case.q) % 256
            /\ cpu'.v = (hist.case.q = 176)]_vars

\* C25 witness: $50 - $F0 with carry set has been computed: A = $60, V clear
C25_Witness ==
    /\ hist.case.kind = "sbc" /\ hist.case.p = 80 /\ hist.case.q = 240
    /\ hist.case.cin = 1
    /\ hist.ticks = SetupTicks + 1 /\ last.opcode = 233
    /\ cpu.a = 96 /\ ~cpu.v

----------------------------------------------------------------------------
(* SpecDisk: .d64 images attached to the drive and files loaded from them.  *)

MaxAttaches == 2
MaxLoads == 2

\* the length of a 35-track image: 683 sectors
D64Size == 683 * 256

\* file names as PETSCII bytes: "hi" in unshifted and in shifted letters
DiskNames == {<<72, 73>>, <<200, 201>>}

\* the names asked for: "hi", "HI" and "x", as character codes
LoadNames == {<<104, 105>>, <<72, 73>>, <<120>>}

\* the sectors of the file, in chain order
SectorChains ==
    {<< <<1, 0>> >>,
     << <<1, 0>>, <<1, 10>> >>,
     << <<17, 3>>, <<17, 0>> >>,
     << <<1, 0>>, <<19, 5>>, <<35, 16>> >>}

\* the second byte of the last sector
UsedBytes == {0, 1, 100, 254, 255}

DiskLayouts ==
    {[name |-> name, chain |-> chain, used |-> used] :
        name \in DiskNames, chain \in SectorChains, used \in UsedBytes}

\* byte k (2..255) of the i-th sector of the file: never zero, and different
\* from sector to sector
Payload(i, k) == ((i * 37 + k) % 255) + 1

\* the first directory sector (18, 1): no further sector, one PRG entry
DirSectorBytes(layout) ==
    [o \in SectorOffset(18, 1) * 256 .. SectorOffset(18, 1) * 256 + 20 |->
        LET k == o - SectorOffset(18, 1) * 256
        IN  CASE k = 0 -> 0
              [] k = 1 -> 255
              [] k = 2 -> 130
              [] k = 3 -> layout.chain[1][1]
              [] k = 4 -> layout.chain[1][2]
              [] OTHER -> IF k - 4 <= Len(layout.name) THEN layout.name[k - 4]
                          ELSE 160]

\* the i-th sector of the file: the link to the next one, or 0 and the used
\* count in the last, then the payload
FileSectorBytes(layout, i) ==
    LET base == SectorOffset(layout.chain[i][1], layout.chain[i][2]) * 256
        final == i = Len(layout.chain)
    IN  [o \in base .. base + 255 |->
            CASE o = base -> IF final THEN 0 ELSE layout.chain[i + 1][1]
              [] o = base + 1 -> IF final THEN layout.used ELSE layout.chain[i + 1][2]
              [] OTHER -> Payload(i, o - base)]

RECURSIVE FileBytes(_, _)
FileBytes(layout, i) ==
    IF i > Len(layout.chain) THEN DirSectorBytes(layout)
    ELSE FileSectorBytes(layout, i) @@ FileBytes(layout, i + 1)

\* the .d64 file of a layout
DiskFile(layout) ==
    [found |-> TRUE, image |-> [size |-> D64Size, data |-> FileBytes(layout, 1)]]

MissingFile == [found |-> FALSE, image |-> [size |-> 0, data |-> Zeros]]

InitDisk ==
    /\ Holds(PowerOn(Zeros, Zeros, Zeros))
    /\ hist = [layout |-> << >>, attaches |-> 0, loads |-> 0]
    /\ snapshot = "none"
    /\ last = [op |-> "init"]

\* bus.drive.attach_disk_image(filename)
AttachOp ==
    /\ hist.attaches < MaxAttaches
    /\ \E layout \in DiskLayouts, found \in BOOLEAN :
         /\ bus' = [bus EXCEPT !.drive =
                      attach_disk_image(@, IF found THEN DiskFile(layout)
                                           ELSE MissingFile)]
         /\ hist' = [hist EXCEPT !.attaches = @ + 1,
                                 !.layout = IF found THEN <<layout>> ELSE @]
         /\ last' = [op |-> "attach", found |-> found]
    /\ UNCHANGED <<cpu, mem, vic, sid, cia, snapshot>>

\* bus.drive.load_file(filename)
LoadFileOp ==
    /\ hist.loads < MaxLoads
    /\ \E filename \in LoadNames :
         /\ last' = [op |-> "load", filename |-> filename,
                     file_data |-> load_file(bus.drive, filename)]
         /\ hist' = [hist EXCEPT !.loads = @ + 1]
    /\ UNCHANGED <<cpu, mem, bus, vic, sid, cia, snapshot>>

NextDisk == AttachOp \/ LoadFileOp

SpecDisk == InitDisk /\ [][NextDisk]_vars

\* the bytes of the i-th sector of the file from byte 2 on, count of them
SectorBytes(i, count) == [k \in 1 .. count |-> Payload(i, k + 1)]

\* the data of the file a layout describes, from its i-th sector on: 254 bytes
\* of every sector but the last, the used count of the last
RECURSIVE FileData(_, _)
FileData(layout, i) ==
    IF i = Len(layout.chain)
    THEN SectorBytes(i, IF layout.used > 254 THEN 254 ELSE layout.used)
    ELSE SectorBytes(i, 254) \o FileData(layout, i + 1)

\* C29: load_file of a name in the directory returns the file's data: all 254
\* bytes after the link of every sector whose next-track byte is not zero, then
\* as many bytes of the last sector as its next-sector byte says, in chain order.
C29_LoadFileWalksChain ==
    (last.op = "load" /\ last.file_data.found /\ bus.drive.disk_image # << >>)
        => last.file_data.data = FileData(hist.layout[1], 1)

\* C29 witness: a file of three sectors has been loaded from an attached image
C29_Witness ==
    /\ last.op = "load" /\ last.file_data.found
    /\ bus.drive.disk_image # << >>
    /\ Len(hist.layout[1].chain) = 3
    /\ Len(last.file_data.data) > 0

----------------------------------------------------------------------------
(* SpecLoad: JSR $FFD5 with a disk image attached.  The program at $1000    *)
(* is JSR $FFD5 / NOP; the name of the file is at $0340, its length at $B8  *)
(* and its address at $BB/$BC, as SETNAM leaves them.                       *)

MaxLoadTicks == 4

\* the names asked for, as PETSCII bytes: "hi" and "x"
TrapNames == {<<72, 73>>, <<88>>}

LoadCases ==
    {[layout |-> layout, filename |-> filename, attached |-> attached] :
        layout \in DiskLayouts, filename \in TrapNames, attached \in BOOLEAN}

\* reset_and_load with the program and the name in place of the .prg file, and
\* the image attached to the drive
LoadMachine(case) ==
    LET m == LoadBlocks(PowerOn(Zeros, ResetTo(4096), Zeros),
                        << <<4096, <<32, 213, 255, 234>> >>,
                           <<832, case.filename>>,
                           <<184, <<Len(case.filename)>> >>,
                           <<187, <<64, 3>> >> >>)
    IN  LoadVector([m EXCEPT !.bus.drive =
                      IF case.attached
                      THEN attach_disk_image(@, DiskFile(case.layout))
                      ELSE @],
                   65532)

InitLoad ==
    /\ \E case \in LoadCases :
         /\ Holds(LoadMachine(case))
         /\ hist = [case |-> case, ticks |-> 0]
    /\ snapshot = "none"
    /\ last = [op |-> "init"]

\* one call of CPU.tick
LoadTickOp ==
    /\ hist.ticks < MaxLoadTicks
    /\ \E t \in {Tick(Machine)} :
           /\ Becomes(t.m)
           /\ last' = [op |-> "tick", opcode |-> t.opcode, pc_int |-> t.pc_int]
           /\ hist' = [hist EXCEPT !.ticks = @ + 1]
    /\ UNCHANGED snapshot

NextLoad == LoadTickOp

SpecLoad == InitLoad /\ [][NextLoad]_vars

\* C28: the tick that finds PC at $FFD5 after the JSR at $1000, with a disk
\* image attached, leaves C clear if the named file is in the directory and
\* set if not, SP at its value before the JSR, and PC at $1003, the
\* instruction after the JSR.
C28_LoadTrapReturns ==
    [][(last'.op = "tick" /\ cpu.pc = 65493 /\ hist.case.attached)
         => /\ cpu'.c = (Upper(Decode(hist.case.filename))
                           \notin DOMAIN bus.drive.directory)
            /\ cpu'.sp = 255
            /\ cpu'.pc = 4096 + 3]_vars

\* C28 witness: the trap has loaded the file: C is clear and the first byte of
\* the data is at the load address the file names
C28_Witness ==
    /\ hist.case.attached /\ hist.case.filename = <<72, 73>>
    /\ Len(hist.case.layout.chain) = 1
    /\ hist.ticks = 2 /\ last.pc_int = 65493
    /\ ~cpu.c
    /\ Get(mem.ram, Payload(1, 2) + Payload(1, 3) * 256) = Payload(1, 4)

----------------------------------------------------------------------------
(* SpecRaster: the raster compare over a whole frame.  The compare line is  *)
(* written to $D012 and bit 7 of $D011, the mask to $D01A, and the VIC-II   *)
(* is clocked from power-on through one frame and into the next.            *)

MaxRasterTicks == 19719

CompareLines == {0, 1, 255, 256, 311}

RasterCases == {[c |-> c, mask |-> mask] : c \in CompareLines, mask \in {0, 1}}

\* the three bus writes that program the compare line and the mask
RasterMachine(case) ==
    LoadBlocks(PowerOn(Zeros, Zeros, Zeros),
               << <<53266, <<case.c % 256>> >>,
                  <<53265, <<(case.c \div 256) * 128>> >>,
                  <<53274, <<case.mask>> >> >>)

InitRaster ==
    /\ \E case \in RasterCases :
         /\ Holds(RasterMachine(case))
         /\ hist = [case |-> case, ticks |-> 0]
    /\ snapshot = "none"
    /\ last = [op |-> "init"]

\* one call of VICII.tick
RasterTickOp ==
    /\ hist.ticks < MaxRasterTicks
    /\ Becomes(VicTick(Machine))
    /\ hist' = [hist EXCEPT !.ticks = @ + 1]
    /\ last' = [op |-> "tick"]
    /\ UNCHANGED snapshot

NextRaster == RasterTickOp

SpecRaster == InitRaster /\ [][NextRaster]_vars

\* bit 0 of the interrupt flags at $D019
RasterFlag(v) == Bit(VicReg(v, 25), 0) = 1

\* C30: for the compare line c written to $D012 and bit 7 of $D011, the tick
\* that ends a scanline and makes the raster line c sets the raster-match flag,
\* and requests an IRQ if bit 0 of $D01A is set; no other tick sets the flag.
C30_RasterMatchEveryFrame ==
    [][last'.op = "tick"
         => /\ (vic'.raster_line # vic.raster_line
                  /\ vic'.raster_line = hist.case.c)
                 => /\ RasterFlag(vic')
                    /\ hist.case.mask = 1 => cpu'.irq_pending
            /\ (RasterFlag(vic') /\ ~RasterFlag(vic))
                 => vic'.raster_line = hist.case.c]_vars

\* C30 witness: the raster line has become 311, the compare line, and the flag
\* and the IRQ request are set
C30_Witness ==
    /\ hist.case.c = 311 /\ hist.case.mask = 1
    /\ vic.raster_line = 311 /\ vic.cycle = 0
    /\ RasterFlag(vic) /\ cpu.irq_pending

----------------------------------------------------------------------------
(* SID envelopes and audio (src/sid.py).  The rate counter of a voice is a   *)
(* float that moves by 985248 / 44100 = 27368 / 1225 a sample; the model     *)
(* keeps it as the integer number of 1/1225ths.  A voice output is kept as   *)
(* the integer number of 1/255ths.                                          *)

ATTACK_RATES ==
    <<2, 8, 16, 24, 38, 56, 68, 80, 100, 250, 500, 800, 1000, 3000, 5000, 8000>>

DECAY_RELEASE_RATES ==
    <<6, 24, 48, 72, 114, 168, 204, 240, 300, 750, 1500, 2400, 3000, 9000,
      15000, 24000>>

EXPONENTIAL_DECAY(i) ==
    IF i = 0 THEN 1
    ELSE IF i <= 6 THEN 30
    ELSE IF i <= 14 THEN 16
    ELSE IF i <= 26 THEN 8
    ELSE IF i <= 52 THEN 4
    ELSE IF i <= 90 THEN 2
    ELSE 1

RateScale == 35 * 35

\* clock_rate / sample_rate, in 1/1225ths
RateStep == (985248 * RateScale) \div 44100

\* the sustain target of a voice
SustainLevel(voice) ==
    BitOr(BitAnd(voice.sustain_release, 240), voice.sustain_release \div 16)

\* Voice.update_envelope
update_envelope(voice) ==
    LET gate == voice.control % 2
        state == IF gate = 1
                 THEN (IF voice.envelope_state = "RELEASE" THEN "ATTACK"
                       ELSE voice.envelope_state)
                 ELSE "RELEASE"
        counter == voice.envelope_counter
        sustain_level_int == SustainLevel(voice)
        step == EXPONENTIAL_DECAY(BitXor(counter, 255))
        decayed == IF counter # sustain_level_int THEN counter - 1 ELSE counter
        v1 == CASE state = "ATTACK" ->
                     IF counter + step >= 255
                     THEN [voice EXCEPT !.envelope_counter = 255,
                                        !.envelope_state = "DECAY"]
                     ELSE [voice EXCEPT !.envelope_counter = counter + step,
                                        !.envelope_state = state]
                [] state = "DECAY" ->
                     IF decayed <= sustain_level_int
                     THEN [voice EXCEPT !.envelope_counter = sustain_level_int,
                                        !.envelope_state = "SUSTAIN"]
                     ELSE [voice EXCEPT !.envelope_counter = decayed,
                                        !.envelope_state = state]
                [] state = "SUSTAIN" ->
                     [voice EXCEPT !.envelope_counter = decayed,
                                   !.envelope_state = state]
                [] OTHER ->
                     [voice EXCEPT !.envelope_counter = counter - 1,
                                   !.envelope_state = state]
    IN  IF v1.envelope_counter < 0 THEN [v1 EXCEPT !.envelope_counter = 0] ELSE v1

\* whether the sample's Voice.tick finds the rate counter run out
EnvelopeDue(voice) == voice.rate_counter - RateStep <= 0

\* Voice.tick
VoiceTick(voice) ==
    LET rate_counter == voice.rate_counter - RateStep
        state == voice.envelope_state
        reloaded ==
            CASE state = "ATTACK" ->
                   rate_counter + ATTACK_RATES[(voice.attack_decay \div 16) + 1] * RateScale
              [] state = "DECAY" ->
                   rate_counter
                     + DECAY_RELEASE_RATES[(voice.attack_decay % 16) + 1] * RateScale
              [] state = "RELEASE" ->
                   rate_counter
                     + DECAY_RELEASE_RATES[(voice.sustain_release % 16) + 1] * RateScale
              [] OTHER -> 65535 * RateScale
    IN  IF rate_counter <= 0
        THEN update_envelope([voice EXCEPT !.rate_counter = reloaded])
        ELSE [voice EXCEPT !.rate_counter = rate_counter]

\* Voice.generate_sample for a voice with no waveform or the pulse waveform
\* selected (bits 4, 5 and 7 of the control register clear): the output times
\* the envelope counter, and the voice with its phase accumulator advanced
generate_sample(voice) ==
    LET waveform_type == BitAnd(voice.control, 240)
        pulse_compare == voice.pulse_width * 4096
        output == CASE BitAnd(waveform_type, 176) = 0 ->
                         IF BitAnd(waveform_type, 64) = 0 THEN 0
                         ELSE IF voice.phase_accumulator < pulse_compare THEN 1
                         ELSE -1
        \* int(freq * 16.777216 / 985248)
        phase_step == (voice.freq * 8192) \div 481078125
    IN  IF voice.envelope_counter = 0 THEN [voice |-> voice, out |-> 0]
        ELSE [voice |-> [voice EXCEPT !.phase_accumulator =
                                          (@ + phase_step) % 16777216],
              out |-> output * voice.envelope_counter]

\* int() of a quotient: towards zero
TruncDiv(a, b) == IF a >= 0 THEN a \div b ELSE -((-a) \div b)

\* one pass of the sample loop of SID.generate_audio_buffer, with no voice
\* routed into the filter, so that both filter accumulators stay 0.0: the
\* sample, and the index i at which the pass stores it.  The two loops over
\* enumerate(v_outs) assign the same i as the sample loop, and leave it at the
\* number of the last voice.
AudioPass(s) ==
    LET ticked == [n \in 0..2 |-> VoiceTick(s.voices[n])]
        sampled == [n \in 0..2 |-> generate_sample(ticked[n])]
        v_outs == [n \in 0..2 |->
                     IF n = 2 /\ s.voice3_off THEN 0 ELSE sampled[n].out]
        final_mix == CASE s.filter_route = 0 -> v_outs[0] + v_outs[1] + v_outs[2]
        \* final_mix / 255 * (32767 * (volume15 / 15) / 3)
        final_sample == TruncDiv(final_mix * 32767 * s.volume15, 255 * 15 * 3)
    IN  [sid |-> [s EXCEPT !.voices = [n \in 0..2 |-> sampled[n].voice]],
         sample |-> final_sample,
         i |-> Cardinality(DOMAIN v_outs) - 1]

----------------------------------------------------------------------------
(* SpecSid: the registers of voice 1 and the volume are programmed, then     *)
(* audio buffers are generated a sample at a time, with register writes      *)
(* between two buffers.                                                      *)

MaxAudioCalls == 5
MaxSidWrites == 1

\* the frame's buffer as main.py asks for it
FrameSamples == 3 * 245

\* volume 15, attack/decay 0, sustain level 8, pulse waveform with the gate on
SceneSustain ==
    <<<<54296, 15>>, <<54277, 0>>, <<54278, 128>>, <<54276, 65>>>>

\* the same with the gate off
SceneRelease ==
    <<<<54296, 15>>, <<54277, 0>>, <<54278, 128>>, <<54276, 64>>>>

SidScenes ==
    {[writes |-> SceneSustain, length |-> FrameSamples],
     [writes |-> SceneSustain, length |-> 4],
     [writes |-> SceneRelease, length |-> 2]}

\* <<address, data>>: the sustain level raised to 15, lowered to 0
SidWritePairs == {<<54278, 240>>, <<54278, 0>>}

NoCall == [active |-> FALSE, length |-> 0, k |-> 0, buffer |-> << >>,
           log |-> << >>]

InitSid ==
    /\ Holds(PowerOn(Zeros, Zeros, Zeros))
    /\ snapshot = "none"
    /\ last = [op |-> "init"]
    /\ \E scene \in SidScenes :
         hist = [scene |-> scene, setup |-> 0, writes |-> 0, calls |-> 0,
                 call |-> NoCall]

SidSetUp == hist.setup = Len(hist.scene.writes)

\* the next write of the set-up
SidSetUpOp ==
    /\ ~SidSetUp
    /\ LET pair == hist.scene.writes[hist.setup + 1]
       IN  /\ Becomes(BusWriteOp(Machine, pair[1], pair[2]))
           /\ last' = [op |-> "write", addr |-> pair[1] % 32, data |-> pair[2]]
    /\ hist' = [hist EXCEPT !.setup = @ + 1]
    /\ UNCHANGED snapshot

\* a register write between two buffers
SidWriteOp ==
    /\ SidSetUp /\ ~hist.call.active
    /\ hist.writes < MaxSidWrites
    /\ \E pair \in SidWritePairs :
         /\ Becomes(BusWriteOp(Machine, pair[1], pair[2]))
         /\ last' = [op |-> "write", addr |-> pair[1] % 32, data |-> pair[2]]
    /\ hist' = [hist EXCEPT !.writes = @ + 1]
    /\ UNCHANGED snapshot

\* SID.generate_audio_buffer is called: the buffer of zeros
GenerateOp ==
    /\ SidSetUp /\ ~hist.call.active
    /\ hist.calls < MaxAudioCalls
    /\ hist' = [hist EXCEPT !.calls = @ + 1,
                            !.call = [active |-> TRUE, length |-> hist.scene.length,
                                      k |-> 0,
                                      buffer |-> [j \in 0..(hist.scene.length - 1) |-> 0],
                                      log |-> << >>]]
    /\ last' = [op |-> "generate", length |-> hist.scene.length]
    /\ UNCHANGED <<cpu, mem, bus, vic, sid, cia, snapshot>>

\* one pass of the sample loop; the store raises IndexError when i is not an
\* index of the buffer, and the last pass returns the buffer
SampleOp ==
    /\ hist.call.active
    /\ LET pass == AudioPass(sid)
           call == hist.call
           raised == pass.i >= call.length
       IN  /\ Becomes([Machine EXCEPT !.sid = pass.sid])
           /\ hist' = [hist EXCEPT !.call =
                         [active |-> ~raised /\ call.k + 1 < call.length,
                          length |-> call.length,
                          k |-> call.k + 1,
                          buffer |-> IF raised THEN call.buffer
                                     ELSE [call.buffer EXCEPT ![pass.i] = pass.sample],
                          log |-> IF raised THEN call.log
                                  ELSE Append(call.log, <<pass.i, pass.sample>>)]]
           /\ last' = [op |-> "sample", k |-> call.k, sample |-> pass.sample,
                       raised |-> raised,
                       returned |-> ~raised /\ call.k + 1 = call.length,
                       due |-> {n \in 0..2 : EnvelopeDue(sid.voices[n])}]
    /\ UNCHANGED snapshot

NextSid == SidSetUpOp \/ SidWriteOp \/ GenerateOp \/ SampleOp

SpecSid == InitSid /\ [][NextSid]_vars

\* C33: an envelope update of a voice in state SUSTAIN with its gate on lowers
\* the envelope counter only when the sustain target is below the counter, and
\* leaves the counter alone otherwise, a target above the counter included.
C33_SustainHolds ==
    [][last'.op = "sample"
         => \A n \in last'.due :
              (sid.voices[n].envelope_state = "SUSTAIN"
               /\ sid.voices[n].control % 2 = 1)
                => LET before == sid.voices[n].envelope_counter
                       after == sid'.voices[n].envelope_counter
                   IN  IF SustainLevel(sid.voices[n]) < before
                       THEN after < before
                       ELSE after = before]_vars

\* C33 witness: an envelope update of voice 1 in SUSTAIN after the sustain
\* level was raised from 8 to 15
C33_Witness ==
    /\ last.op = "sample" /\ 0 \in last.due
    /\ sid.voices[0].envelope_state = "SUSTAIN"
    /\ sid.voices[0].sustain_release = 240
    /\ sid.voices[0].rate_counter = 65535 * RateScale

\* C36: when generate_audio_buffer(N) returns, pass k of the sample loop has
\* stored its sample at position k, for every k in 0..N-1: every position was
\* written once, and holds the sample of its pass.
C36_BufferFilledInOrder ==
    (last.op = "sample" /\ last.returned)
        => /\ Len(hist.call.log) = hist.call.length
           /\ \A k \in 0..(hist.call.length - 1) :
                /\ hist.call.log[k + 1][1] = k
                /\ hist.call.buffer[k] = hist.call.log[k + 1][2]

\* C36 witness: a buffer of 4 returned after passes that mixed non-zero samples
C36_Witness ==
    /\ last.op = "sample" /\ last.returned /\ hist.call.length = 4
    /\ \A k \in 1..4 : hist.call.log[k][2] # 0

----------------------------------------------------------------------------
(* SpecKeys: key events from the host reach CIA1's matrix with set_key_state, *)
(* and the program selects columns at $DC00 and reads the rows back there.   *)

MaxKeyEvents == 3
MaxPortWrites == 2

\* <<row, col>> of the events: five keys of the matrix, and three that are not
KeyPositions ==
    {<<0, 0>>, <<1, 0>>, <<1, 3>>, <<7, 7>>, <<7, 0>>, <<8, 0>>, <<0, -1>>, <<3, 8>>}

\* <<offset, data>>: no column selected, column 0, column 3, columns 0 and 7,
\* every column; port A made an output
PortWritePairs ==
    {<<0, 255>>, <<0, 254>>, <<0, 247>>, <<0, 126>>, <<0, 0>>, <<2, 255>>}

InitKeys ==
    /\ Holds(PowerOn(Zeros, Zeros, Zeros))
    /\ snapshot = "none"
    /\ last = [op |-> "init"]
    /\ hist = [events |-> 0, writes |-> 0]

\* a KEYDOWN or KEYUP event handed to cia1.set_key_state
KeyEventOp ==
    /\ hist.events < MaxKeyEvents
    /\ \E position \in KeyPositions, pressed \in BOOLEAN :
         /\ cia' = [cia EXCEPT !.cia1 =
                       set_key_state(@, position[1], position[2], pressed)]
         /\ last' = [op |-> "key", row |-> position[1], col |-> position[2],
                     pressed |-> pressed]
    /\ hist' = [hist EXCEPT !.events = @ + 1]
    /\ UNCHANGED <<cpu, mem, bus, vic, sid, snapshot>>

PortWriteOp ==
    /\ hist.writes < MaxPortWrites
    /\ \E pair \in PortWritePairs :
         /\ Becomes(BusWriteOp(Machine, CiaBase("cia1") + pair[1], pair[2]))
         /\ last' = [op |-> "write", offset |-> pair[1], data |-> pair[2]]
    /\ hist' = [hist EXCEPT !.writes = @ + 1]
    /\ UNCHANGED snapshot

PortReadOp ==
    /\ LET r == BusRead(Machine, CiaBase("cia1"))
       IN  /\ Becomes(r.m)
           /\ last' = [op |-> "read", offset |-> 0, val |-> r.val]
    /\ UNCHANGED <<snapshot, hist>>

NextKeys == KeyEventOp \/ PortWriteOp \/ PortReadOp

SpecKeys == InitKeys /\ [][NextKeys]_vars

\* C35: with DDRA 0 and the joystick idle, bit r of a read of CIA1 port A is 0
\* exactly when a column selected by a 0 bit of the port-A latch has
\* matrix[r][c] = 0; a press sets matrix[row][col] to 0, a release sets it to 1,
\* and an event with row or column outside 0..7 changes nothing.
C35_KeyboardScan ==
    [][/\ (last'.op = "read" /\ cia.cia1.ddra = 0 /\ cia.cia1.joystick_state = 255)
            => \A r \in 0..7 :
                 Bit(last'.val, r) = 0
                   <=> \E c \in 0..7 : /\ Bit(cia.cia1.port_a_output, c) = 0
                                       /\ cia.cia1.keyboard_matrix[r][c] = 0
       /\ last'.op = "key"
            => /\ \A r \in 0..7, c \in 0..7 :
                    cia'.cia1.keyboard_matrix[r][c] =
                       IF r = last'.row /\ c = last'.col
                       THEN (IF last'.pressed THEN 0 ELSE 1)
                       ELSE cia.cia1.keyboard_matrix[r][c]
               /\ (last'.row \notin 0..7 \/ last'.col \notin 0..7) => cia' = cia]_vars

\* C35 witness: the keys (1, 0) and (7, 7) are down, columns 0 and 7 selected,
\* and the read returns rows 1 and 7 low
C35_Witness ==
    /\ last.op = "read" /\ last.val = 125
    /\ cia.cia1.ddra = 0 /\ cia.cia1.port_a_output = 126
    /\ cia.cia1.keyboard_matrix[1][0] = 0 /\ cia.cia1.keyboard_matrix[7][7] = 0

----------------------------------------------------------------------------
(* SpecStack: the stack pointer is set near either end of page one, then a   *)
(* push instruction runs, or an interrupt is requested and entered.          *)

MaxStackTicks == 20

\* the ticks LDX #, TXS and LDA # take
StackSetupTicks == 3 * (2 + 1)

StackPointers == {255, 2, 1, 0}

\* $1000  LDX #sp / TXS / LDA #$5A, then PHA, PHP, JSR $1010, BRK, NOPs under
\* which an IRQ or an NMI is requested, or SEI / NOP / BRK with an IRQ requested
\* after the SEI; a JMP to itself ends each path.  req is the request a device
\* makes and at the number of ticks after which it makes it.
StackCases ==
    {[sp |-> sp, kind |-> c[1], code |-> <<162, sp, 154, 169, 90>> \o c[2],
      req |-> c[3], at |-> c[4]] :
        sp \in StackPointers,
        c \in {<<"pha", <<72, 76, 6, 16>>, "none", 0>>,
               <<"php", <<8, 76, 6, 16>>, "none", 0>>,
               <<"jsr", <<32, 16, 16, 234, 234, 234, 234, 234, 234, 234, 234,
                          76, 16, 16>>, "none", 0>>,
               <<"brk", <<0>>, "none", 0>>,
               <<"irq", <<234, 234, 76, 7, 16>>, "irq", StackSetupTicks>>,
               <<"nmi", <<234, 234, 76, 7, 16>>, "nmi", StackSetupTicks>>,
               <<"sei", <<120, 234, 0>>, "irq", StackSetupTicks + 3>>}}

\* $2000 and $3000, the NMI and the IRQ handler: a JMP to itself
StackHandlers == << <<8192, <<76, 0, 32>> >>, <<12288, <<76, 0, 48>> >> >>

\* reset_and_load with the case's bytes in place of the .prg file
StackMachine(case) ==
    LoadVector(LoadBlocks(PowerOn(Zeros, KernalVectors, Zeros),
                          << <<4096, case.code>> >> \o StackHandlers),
               65532)

InitStack ==
    /\ \E case \in StackCases :
         /\ Holds(StackMachine(case))
         /\ hist = [case |-> case, ticks |-> 0, requests |-> 0]
    /\ snapshot = "none"
    /\ last = [op |-> "init"]

\* one call of CPU.tick
StackTickOp ==
    /\ hist.ticks < MaxStackTicks
    /\ \E t \in {Tick(Machine)} :
           /\ Becomes(t.m)
           /\ last' = [op |-> "tick", opcode |-> t.opcode, serviced |-> t.serviced]
           /\ hist' = [hist EXCEPT !.ticks = @ + 1]
    /\ UNCHANGED snapshot

\* a device calls CPU.irq or CPU.nmi
StackRequestOp ==
    /\ hist.case.req # "none"
    /\ hist.ticks = hist.case.at /\ hist.requests = 0
    /\ cpu' = IF hist.case.req = "irq" THEN CpuIrq(cpu) ELSE CpuNmi(cpu)
    /\ last' = [op |-> hist.case.req]
    /\ hist' = [hist EXCEPT !.requests = @ + 1]
    /\ UNCHANGED <<mem, bus, vic, sid, cia, snapshot>>

NextStack == StackTickOp \/ StackRequestOp

SpecStack == InitStack /\ [][NextStack]_vars

\* the RAM addresses whose byte the step changes
RamChanged ==
    {a \in (DOMAIN mem.ram) \cup (DOMAIN mem'.ram) : Get(mem'.ram, a) # Get(mem.ram, a)}

\* C37: SP stays in 0..255, and every byte pushed by PHA, PHP, JSR, BRK or by
\* the entry of an IRQ or NMI is written in $0100-$01FF, with SP 0 or 1 at the
\* push as well.
C37_StackInPageOne ==
    [][last'.op = "tick"
         => /\ cpu'.sp \in 0..255
            /\ \A a \in RamChanged : a \in 256..511]_vars

\* C37 witness: an IRQ entered with SP = 1
C37_Witness ==
    /\ hist.case.kind = "irq" /\ hist.case.sp = 1
    /\ last.op = "tick" /\ last.serviced = <<"irq">>
    /\ cpu.sp = 254 /\ cpu.i

\* whether the tick serviced an IRQ
IrqServiced(record) == \E k \in 1..Len(record.serviced) : record.serviced[k] = "irq"

\* C40: irq() and nmi() change the respective pending flag and nothing else; a
\* tick that starts with an IRQ pending leaves it pending and unserviced when
\* its interrupt check finds I set (I was set, or the NMI serviced just before
\* set it), and services it when the check finds I clear; the tick that
\* services an IRQ leaves I set.
C40_IrqNeverLost ==
    [][/\ last'.op = "irq"
            => /\ cpu' = [cpu EXCEPT !.irq_pending = TRUE]
               /\ UNCHANGED <<mem, bus, vic, sid, cia>>
       /\ last'.op = "nmi"
            => /\ cpu' = [cpu EXCEPT !.nmi_pending = TRUE]
               /\ UNCHANGED <<mem, bus, vic, sid, cia>>
       /\ (last'.op = "tick" /\ cpu.irq_pending)
            => IF cpu.i \/ cpu.nmi_pending
               THEN cpu'.irq_pending /\ ~IrqServiced(last')
               ELSE IrqServiced(last')
       /\ (last'.op = "tick" /\ IrqServiced(last')) => cpu'.i]_vars

\* C40 witness: an IRQ requested after SEI has stayed pending through the NOP
C40_Witness ==
    /\ hist.case.kind = "sei" /\ hist.requests = 1
    /\ last.op = "tick" /\ last.opcode = 234
    /\ cpu.i /\ cpu.irq_pending

----------------------------------------------------------------------------
(* SpecBranch: the flags are loaded from a byte through the stack, then a    *)
(* conditional branch runs.                                                  *)

MaxBranchTicks == 14

\* the address of the branch, after LDA #, PHA and PLP
BranchAt == 4096 + 4

\* the status bytes pulled: no flag, N, V, Z, C, and the four together
FlagBytes == {0, 128, 64, 2, 1, 195}

\* $1000  LDA #flags / PHA / PLP / Bxx offset
FlagBranchCases ==
    {[flags |-> f, code |-> <<169, f, 72, 40, op, off>>] :
        f \in FlagBytes, op \in BranchOpcodes, off \in {4, 252}}

\* reset_and_load with the case's bytes in place of the .prg file
BranchMachine(case) ==
    LoadVector(load_program(PowerOn(Zeros, ResetTo(4096), Zeros), 4096, case.code),
               65532)

InitBranch ==
    /\ \E case \in FlagBranchCases :
         /\ Holds(BranchMachine(case))
         /\ hist = [case |-> case, ticks |-> 0]
    /\ snapshot = "none"
    /\ last = [op |-> "init"]

\* one call of CPU.tick
BranchTickOp ==
    /\ hist.ticks < MaxBranchTicks
    /\ \E t \in {Tick(Machine)} :
           /\ Becomes(t.m)
           /\ last' = [op |-> "tick", opcode |-> t.opcode, cost |-> t.cost]
           /\ hist' = [hist EXCEPT !.ticks = @ + 1]
    /\ UNCHANGED snapshot

NextBranch == BranchTickOp

SpecBranch == InitBranch /\ [][NextBranch]_vars

\* the flag sense the 6502 documents for a branch opcode, on the CPU record p
DocumentedSense(p, opcode) ==
    CASE opcode = 16 -> ~p.n
      [] opcode = 48 -> p.n
      [] opcode = 80 -> ~p.v
      [] opcode = 112 -> p.v
      [] opcode = 144 -> ~p.c
      [] opcode = 176 -> p.c
      [] opcode = 208 -> ~p.z
      [] opcode = 240 -> p.z

\* C38: a conditional branch is taken exactly when its flag has the documented
\* sense: BPL on N clear, BMI on N set, BVC on V clear, BVS on V set, BCC on C
\* clear, BCS on C set, BNE on Z clear, BEQ on Z set.
C38_BranchSense ==
    [][(cpu.pc = BranchAt /\ last'.op = "tick"
        /\ last'.opcode = hist.case.code[5])
         => cpu'.pc = IF DocumentedSense(cpu, hist.case.code[5])
                      THEN cpu.pc + 2 + Signed(hist.case.code[6])
                      ELSE cpu.pc + 2]_vars

\* C38 witness: BVC has run with V clear and N set
C38_Witness ==
    /\ hist.case.code[5] = 80 /\ hist.case.flags = 128
    /\ last.op = "tick" /\ last.opcode = 80 /\ ~cpu.v /\ cpu.n

----------------------------------------------------------------------------
(* SpecShift: the carry is set or cleared, the accumulator loaded, and ASL A *)
(* or LSR A runs.                                                            *)

MaxShiftTicks == 10

\* the address of the shift, after SEC or CLC and LDA #
ShiftAt == 4096 + 3

\* $1000  SEC or CLC / LDA #value / ASL A or LSR A
ShiftCases ==
    {[value |-> v, code |-> <<carry, 169, v, op>>] :
        v \in 0..255, carry \in {56, 24}, op \in {10, 74}}

\* reset_and_load with the case's bytes in place of the .prg file
ShiftMachine(case) ==
    LoadVector(load_program(PowerOn(Zeros, ResetTo(4096), Zeros), 4096, case.code),
               65532)

InitShift ==
    /\ \E case \in ShiftCases :
         /\ Holds(ShiftMachine(case))
         /\ hist = [case |-> case, ticks |-> 0]
    /\ snapshot = "none"
    /\ last = [op |-> "init"]

\* one call of CPU.tick
ShiftTickOp ==
    /\ hist.ticks < MaxShiftTicks
    /\ \E t \in {Tick(Machine)} :
           /\ Becomes(t.m)
           /\ last' = [op |-> "tick", opcode |-> t.opcode, cost |-> t.cost]
           /\ hist' = [hist EXCEPT !.ticks = @ + 1]
    /\ UNCHANGED snapshot

NextShift == ShiftTickOp

SpecShift == InitShift /\ [][NextShift]_vars

\* C39: after ASL the carry is bit 7 of the operand before the shift, and after
\* LSR it is bit 0 of it, whatever the operand and the carry before.
C39_ShiftCarryOut ==
    [][(cpu.pc = ShiftAt /\ last'.op = "tick" /\ last'.opcode = hist.case.code[4])
         => cpu'.c = (Bit(cpu.a, IF last'.opcode = 10 THEN 7 ELSE 0) = 1)]_vars

\* C39 witness: ASL A has run on $40 with the carry set before
C39_Witness ==
    /\ hist.case.code = <<56, 169, 64, 10>>
    /\ last.op = "tick" /\ last.opcode = 10
    /\ cpu.a = 128

============================================================================
